---- MODULE Spec2Model ----
(***************************************************************************)
(* Model of the TidyWindow catalog tools:                                  *)
(*   tools/check_package_availability.py  (the availability check run)     *)
(*   tools/suggest_catalog_fixes.py       (the suggestion pass)            *)
(*                                                                         *)
(* Text is modelled character by character: a Python str is a sequence of  *)
(* one-character strings, so lower(), strip(), splitlines(), substring     *)
(* tests, the shlex tokenizer and difflib's ratio are computed the way the *)
(* code computes them.  Optional[str] is a string or None (a sentinel      *)
(* tuple that is no string); Optional[int] is a sequence of length <= 1.   *)
(* Scores are the code's floats: IEEE 754 doubles written as an exponent   *)
(* and a mantissa of 53 bits, every operation rounded to the nearest       *)
(* double.                                                                 *)
(***************************************************************************)
EXTENDS Integers, Sequences, FiniteSets, TLC

VARIABLES
    prog,       \* what runs: "check", "suggest", or one function alone
                \* ("classify", "score")
    pc,         \* position: "start", "loop" (check), "record", "manager",
                \* "query", "write" (suggest), "done"
    args,       \* parsed command line and what the file system holds, or
                \* the arguments of the function applied alone
    catalog,    \* check: load_packages(); suggest: load_results()
    entries,    \* check: filter_entries(); suggest: filter_records()
    results,    \* check: List[CheckResult]; suggest: output_payload;
                \* classify, score: what the function returned
    proc,       \* the last subprocess.run outcome
    spawned,    \* check: per processed entry, how many processes were
                \* started; suggest: the search calls <<manager, query>>
    exitCode,   \* main()'s return value, <<>> while running
    search      \* suggest: the local state of search_for_record;
                \* score: the values base took per candidate

vars == <<prog, pc, args, catalog, entries, results, proc, spawned, exitCode, search>>

-----------------------------------------------------------------------------
(* Python str and Optional helpers *)

None == <<"None">>

IsTruthy(x) == x # None /\ x # <<>>

\* The upper-case letters and their lower-case forms
LowerOf ==
    [A |-> "a", B |-> "b", C |-> "c", D |-> "d", E |-> "e", F |-> "f", G |-> "g",
     H |-> "h", I |-> "i", J |-> "j", K |-> "k", L |-> "l", M |-> "m", N |-> "n",
     O |-> "o", P |-> "p", Q |-> "q", R |-> "r", S |-> "s", T |-> "t", U |-> "u",
     V |-> "v", W |-> "w", X |-> "x", Y |-> "y", Z |-> "z"]

Letters == DOMAIN LowerOf \cup {LowerOf[u] : u \in DOMAIN LowerOf}

Digits == {"0","1","2","3","4","5","6","7","8","9"}

LowerChar(c) == IF c \in DOMAIN LowerOf THEN LowerOf[c] ELSE c

\* str.lower()
lower(s) == [i \in 1..Len(s) |-> LowerChar(s[i])]

\* str.isspace() of one character, and \s of re: space, tab, line feed,
\* carriage return, form feed, vertical tab (0x0b) and the four separators
\* 0x1c to 0x1f, written here as the characters themselves
IsSpace(c) == c \in {" ", "\t", "\n", "\r", "\f", "", "", "", "", ""}

\* sub in s
Contains(s, sub) ==
    \E i \in 0..(Len(s) - Len(sub)) : SubSeq(s, i + 1, i + Len(sub)) = sub

\* s.startswith(p)
startswith(s, p) == Len(p) <= Len(s) /\ SubSeq(s, 1, Len(p)) = p

MinOf(S) == CHOOSE x \in S : \A y \in S : x <= y

MaxOf(S) == CHOOSE x \in S : \A y \in S : x >= y

\* The first index at or after i of a character in (member = TRUE) or not in
\* (member = FALSE) the set cs, Len(s) + 1 when there is none
NextIndex(s, i, cs, member) ==
    LET hits == {j \in i..Len(s) : (s[j] \in cs) = member} IN
    IF hits = {} THEN Len(s) + 1 ELSE MinOf(hits)

\* The last index of a character not in cs, 0 when there is none
LastIndexNotIn(s, cs) ==
    LET hits == {j \in 1..Len(s) : s[j] \notin cs} IN
    IF hits = {} THEN 0 ELSE MaxOf(hits)

\* The characters str.strip() and str.split() take as whitespace
Whitespace == {" ", "\t", "\n", "\r", "\f", "", "", "", "", ""}

\* str.strip(chars)
strip_chars(s, cs) ==
    SubSeq(s, NextIndex(s, 1, cs, FALSE), LastIndexNotIn(s, cs))

\* str.rstrip()
rstrip(s) == SubSeq(s, 1, LastIndexNotIn(s, Whitespace))

\* str.strip()
strip(s) == strip_chars(s, Whitespace)

\* A line of str.splitlines() ends at "\n", at "\f", at a vertical tab
\* (0x0b), at one of the separators 0x1c, 0x1d, 0x1e (0x1f is whitespace
\* and no line boundary), or at a "\r" that no "\n" follows
IsLineEnd(s, i) ==
    \/ s[i] \in {"\n", "\f", "", "", "", ""}
    \/ s[i] = "\r" /\ ~(i < Len(s) /\ s[i + 1] = "\n")

\* Where the line boundary that ends at i begins ("\r\n" is one boundary)
LineEndStart(s, i) ==
    IF s[i] = "\n" /\ i > 1 /\ s[i - 1] = "\r" THEN i - 1 ELSE i

\* str.splitlines(): the text before each boundary, and the text after the
\* last one when there is some
splitlines(s) ==
    LET ends == {i \in 1..Len(s) : IsLineEnd(s, i)}
        n == Cardinality(ends)
        EndAt(k) == IF k = 0 THEN 0
                    ELSE CHOOSE e \in ends : Cardinality({x \in ends : x <= e}) = k
        body == [k \in 1..n |->
                    SubSeq(s, EndAt(k - 1) + 1, LineEndStart(s, EndAt(k)) - 1)]
    IN IF EndAt(n) < Len(s)
       THEN Append(body, SubSeq(s, EndAt(n) + 1, Len(s)))
       ELSE body

\* str.split() with no separator: the runs of non-whitespace
\* The maximal runs of characters outside cs, in order
fields(s, cs) ==
    LET starts == {i \in 1..Len(s) :
                      s[i] \notin cs /\ (i = 1 \/ s[i - 1] \in cs)}
        nth(k) == CHOOSE i \in starts :
                      Cardinality({j \in starts : j < i}) = k - 1
    IN [k \in 1..Cardinality(starts) |->
           SubSeq(s, nth(k), NextIndex(s, nth(k), cs, TRUE) - 1)]

split_ws(s) == fields(s, Whitespace)

Range(seq) == {seq[i] : i \in 1..Len(seq)}

-----------------------------------------------------------------------------
(* check_package_availability.py: tables *)

S_winget == <<"w","i","n","g","e","t">>
S_choco == <<"c","h","o","c","o">>
S_chocolatey == <<"c","h","o","c","o","l","a","t","e","y">>
S_scoop == <<"s","c","o","o","p">>
S_install == <<"i","n","s","t","a","l","l">>
S_upgrade == <<"u","p","g","r","a","d","e">>
S_update == <<"u","p","d","a","t","e">>
S_show == <<"s","h","o","w">>
S_display == <<"d","i","s","p","l","a","y">>
S_list == <<"l","i","s","t">>
S_info == <<"i","n","f","o">>
S_search == <<"s","e","a","r","c","h">>
S_uninstall == <<"u","n","i","n","s","t","a","l","l">>
S_dashdash_id == <<"-","-","i","d">>

WINGET_NOT_FOUND_MARKERS == {
    <<"n","o"," ","p","a","c","k","a","g","e"," ","f","o","u","n","d"," ","m","a","t","c","h","i","n","g"," ","i","n","p","u","t"," ","c","r","i","t","e","r","i","a">>,
    <<"n","o"," ","p","a","c","k","a","g","e","s"," ","f","o","u","n","d"," ","m","a","t","c","h","i","n","g"," ","i","n","p","u","t"," ","c","r","i","t","e","r","i","a">>,
    <<"n","o"," ","p","a","c","k","a","g","e"," ","f","o","u","n","d"," ","m","a","t","c","h","i","n","g"," ","t","h","e"," ","i","n","p","u","t"," ","c","r","i","t","e","r","i","a">>,
    <<"n","o"," ","a","p","p","l","i","c","a","t","i","o","n"," ","f","o","u","n","d"," ","m","a","t","c","h","i","n","g"," ","i","n","p","u","t"," ","c","r","i","t","e","r","i","a">>,
    <<"n","o"," ","a","p","p"," ","f","o","u","n","d"," ","m","a","t","c","h","i","n","g"," ","i","n","p","u","t"," ","c","r","i","t","e","r","i","a">>}

CHOCO_NOT_FOUND_MARKERS == {
    <<"0"," ","p","a","c","k","a","g","e","s"," ","f","o","u","n","d">>,
    <<"n","o"," ","p","a","c","k","a","g","e","s"," ","f","o","u","n","d">>,
    <<"n","o","t"," ","i","n","s","t","a","l","l","e","d","."," ","c","a","n","n","o","t"," ","f","i","n","d">>}

SCOOP_NOT_FOUND_MARKERS == {
    <<"c","o","u","l","d","n","'","t"," ","f","i","n","d"," ","m","a","n","i","f","e","s","t">>,
    <<"c","o","u","l","d"," ","n","o","t"," ","f","i","n","d"," ","m","a","n","i","f","e","s","t">>,
    <<"n","o"," ","m","a","t","c","h","e","s"," ","f","o","u","n","d">>}

\* CLI_NAME_BY_MANAGER.get(key): the CLI name, or None for an unmapped manager
CLI_NAME_BY_MANAGER(key) ==
    IF key = S_winget THEN S_winget
    ELSE IF key \in {S_choco, S_chocolatey} THEN S_choco
    ELSE IF key = S_scoop THEN S_scoop
    ELSE None

-----------------------------------------------------------------------------
(* Command Parser *)

ShlexWhitespace == {" ", "\t", "\r", "\n"}

ShlexQuotes == {"'", "\""}

\* shlex.split(command, posix=False): shlex.read_token with whitespace_split
\* set and no commenters, one token per step.  Between tokens whitespace is
\* skipped.  A quote that starts a token opens a quoted run, and the token
\* ends with the closing quote; a missing closing quote is ValueError
\* (ok = FALSE).  Any other character starts a word that runs to the next
\* whitespace, quotes inside it being ordinary characters.
RECURSIVE shlex_scan(_, _, _)
shlex_scan(s, i, acc) ==
    LET start == NextIndex(s, i, ShlexWhitespace, FALSE) IN
    IF start > Len(s) THEN [ok |-> TRUE, tokens |-> acc]
    ELSE IF s[start] \in ShlexQuotes
    THEN LET close == NextIndex(s, start + 1, {s[start]}, TRUE) IN
         IF close > Len(s) THEN [ok |-> FALSE, tokens |-> <<>>]
         ELSE shlex_scan(s, close + 1, Append(acc, SubSeq(s, start, close)))
    ELSE LET stop == NextIndex(s, start, ShlexWhitespace, TRUE) IN
         shlex_scan(s, stop, Append(acc, SubSeq(s, start, stop - 1)))

shlex_split(s) ==
    IF \A i \in 1..Len(s) : s[i] \notin ShlexQuotes
    THEN [ok |-> TRUE, tokens |-> fields(s, ShlexWhitespace)]
    ELSE shlex_scan(s, 1, <<>>)

split_command(command) ==
    IF command = <<>> THEN <<>>
    ELSE IF shlex_split(command).ok
    THEN shlex_split(command).tokens
    ELSE split_ws(command)

\* \w of the regular expression
IsWordChar(c) == c \in Letters \/ c \in Digits \/ c = "_"

\* [\w\.\-]
IsIdChar(c) == IsWordChar(c) \/ c = "." \/ c = "-"

\* The end of the whitespace run that starts at i
SkipSpaces(s, i) == NextIndex(s, i, Whitespace, FALSE)

\* The end of the run of [\w\.\-] that starts at i
IdRunEnd(s, i) ==
    LET stops == {j \in i..Len(s) : ~IsIdChar(s[j])} IN
    IF stops = {} THEN Len(s) + 1 ELSE MinOf(stops)

\* Where group 1 of --id(?:=|\s+)([\w\.\-]+) starts when the pattern matches
\* at position i (re.IGNORECASE), 0 when it does not match there.
IdFlagValueStart(s, i) ==
    IF i + 4 > Len(s) \/ lower(SubSeq(s, i, i + 3)) # S_dashdash_id
    THEN 0
    ELSE LET start == IF s[i + 4] = "=" THEN i + 5
                      ELSE IF IsSpace(s[i + 4]) THEN SkipSpaces(s, i + 4)
                      ELSE 0
         IN IF start # 0 /\ start <= Len(s) /\ IsIdChar(s[start])
            THEN start ELSE 0

\* re.search(r"--id(?:=|\s+)([\w\.\-]+)", command, re.IGNORECASE).group(1),
\* None when nothing matches: the leftmost match, its value run greedy.
regex_id_flag(command) ==
    LET hits == {i \in 1..Len(command) : IdFlagValueStart(command, i) # 0} IN
    IF hits = {} THEN None
    ELSE LET first == CHOOSE i \in hits : \A j \in hits : i <= j
             start == IdFlagValueStart(command, first)
         IN SubSeq(command, start, IdRunEnd(command, start) - 1)

\* The inner while loop: the first token at or after index that is not a
\* flag, 0 when there is none.
first_non_flag(tokens, index) ==
    LET hits == {i \in index..Len(tokens) :
                    tokens[i] # <<>> /\ ~startswith(tokens[i], <<"-">>)}
    IN IF hits = {} THEN 0 ELSE MinOf(hits)

\* The for loop shared by the three extractors: the invocation token cli,
\* a verb of verbs right after it, then the first non-flag token with
\* surrounding quotes stripped.
RECURSIVE extract_after_verb(_, _, _, _)
extract_after_verb(tokens, idx, cli, verbs) ==
    IF idx > Len(tokens) THEN None
    ELSE IF lower(tokens[idx]) # cli
    THEN extract_after_verb(tokens, idx + 1, cli, verbs)
    ELSE IF idx + 1 > Len(tokens) THEN None
    ELSE IF lower(tokens[idx + 1]) \notin verbs
    THEN extract_after_verb(tokens, idx + 1, cli, verbs)
    ELSE IF first_non_flag(tokens, idx + 2) = 0
    THEN extract_after_verb(tokens, idx + 1, cli, verbs)
    ELSE strip_chars(tokens[first_non_flag(tokens, idx + 2)], {"\"", "'"})

WingetVerbs == {S_install, S_upgrade, S_show, S_display, S_list}

ChocoVerbs == {S_install, S_upgrade, S_info, S_search, S_uninstall}

ScoopVerbs == {S_install, S_update, S_upgrade, S_info, S_search}

\* An extraction that tries the positional rule before the identifier flag
extract_winget_identifier_positional_first(command) ==
    IF command = <<>> THEN None
    ELSE IF extract_after_verb(split_command(command), 1, S_winget,
                               WingetVerbs) # None
    THEN extract_after_verb(split_command(command), 1, S_winget, WingetVerbs)
    ELSE regex_id_flag(command)

extract_winget_identifier(command) ==
    IF command = <<>> THEN None
    ELSE IF regex_id_flag(command) # None THEN regex_id_flag(command)
    ELSE extract_after_verb(split_command(command), 1, S_winget, WingetVerbs)

\* An extraction for choco that accepts the verbs of winget
extract_choco_identifier_winget_verbs(command) ==
    IF command = <<>> THEN None
    ELSE extract_after_verb(split_command(command), 1, S_choco, WingetVerbs)

extract_choco_identifier(command) ==
    IF command = <<>> THEN None
    ELSE extract_after_verb(split_command(command), 1, S_choco, ChocoVerbs)

extract_scoop_identifier(command) ==
    IF command = <<>> THEN None
    ELSE extract_after_verb(split_command(command), 1, S_scoop, ScoopVerbs)

extract_manager_identifier(entry) ==
    LET manager == lower(entry.manager) IN
    IF manager = S_winget THEN extract_winget_identifier(entry.command)
    ELSE IF manager \in {S_choco, S_chocolatey}
    THEN extract_choco_identifier(entry.command)
    ELSE IF manager = S_scoop THEN extract_scoop_identifier(entry.command)
    ELSE None

-----------------------------------------------------------------------------
(* Result Classifier *)

\* any(marker in normalized_output for marker in markers)
ContainsAny(s, markers) == \E m \in markers : Contains(s, m)

IsBlank(s) == strip(s) = <<>>

NotBlank(s) == ~IsBlank(s)

\* [line.strip() for line in lines if line.strip()]
stripped_lines(lines) ==
    LET kept == SelectSeq(lines, NotBlank) IN
    [i \in 1..Len(kept) |-> strip(kept[i])]

\* scoop_line_matches without the delimiter: any line the identifier prefixes
scoop_line_matches_prefix(line, identifier_lower) ==
    startswith(lower(line), identifier_lower)

\* The test of the loop over the output lines of a scoop search: the line
\* starts with the identifier and a space or "(", or is the identifier.
scoop_line_matches(line, identifier_lower) ==
    \/ startswith(lower(line), identifier_lower \o <<" ">>)
    \/ startswith(lower(line), identifier_lower \o <<"(">>)
    \/ lower(line) = identifier_lower

\* The scoop branch of interpret_manager_result.  A message is its fixed
\* text; "<snippet>" stands for summarize_output(output).
interpret_scoop_result(identifier, return_code, output) ==
    IF ContainsAny(lower(output), SCOOP_NOT_FOUND_MARKERS)
    THEN [status |-> "not-found",
          message |-> "Scoop reported no matching package. Output: <snippet>"]
    ELSE LET lines == stripped_lines(splitlines(output)) IN
         IF return_code # 0
         THEN [status |-> "error", message |-> "<snippet>"]
         ELSE IF lines = <<>>
         THEN [status |-> "not-found",
               message |-> "Scoop returned no search results. Output: <snippet>"]
         ELSE IF \E i \in 1..Len(lines) :
                   scoop_line_matches(lines[i], lower(identifier))
         THEN [status |-> "ok", message |-> "Scoop search located the package."]
         ELSE [status |-> "not-found", message |-> "<snippet>"]

\* interpret_manager_result with the exit code tested before the markers
interpret_manager_result_code_first(manager, identifier, return_code, output) ==
    LET normalized_output == lower(output)
        manager_key == lower(manager)
    IN
    IF manager_key = S_winget
    THEN IF return_code # 0
         THEN [status |-> "error", message |-> "<snippet>"]
         ELSE IF ContainsAny(normalized_output, WINGET_NOT_FOUND_MARKERS)
         THEN [status |-> "not-found",
               message |-> "winget reported no matching package. Output: <snippet>"]
         ELSE [status |-> "ok", message |-> "winget show located the package."]
    ELSE IF manager_key \in {S_choco, S_chocolatey}
    THEN IF return_code # 0
         THEN [status |-> "error", message |-> "<snippet>"]
         ELSE IF ContainsAny(normalized_output, CHOCO_NOT_FOUND_MARKERS)
         THEN [status |-> "not-found",
               message |-> "Chocolatey reported no matching package. Output: <snippet>"]
         ELSE [status |-> "ok", message |-> "Chocolatey info located the package."]
    ELSE IF manager_key = S_scoop
    THEN interpret_scoop_result(identifier, return_code, output)
    ELSE [status |-> "skipped", message |-> "No verifier implemented for this manager."]

\* interpret_manager_result: (status, message)
interpret_manager_result(manager, identifier, return_code, output) ==
    LET normalized_output == lower(output)
        manager_key == lower(manager)
    IN
    IF manager_key = S_winget
    THEN IF ContainsAny(normalized_output, WINGET_NOT_FOUND_MARKERS)
         THEN [status |-> "not-found",
               message |-> "winget reported no matching package. Output: <snippet>"]
         ELSE IF return_code # 0
         THEN [status |-> "error", message |-> "<snippet>"]
         ELSE [status |-> "ok", message |-> "winget show located the package."]
    ELSE IF manager_key \in {S_choco, S_chocolatey}
    THEN IF ContainsAny(normalized_output, CHOCO_NOT_FOUND_MARKERS)
         THEN [status |-> "not-found",
               message |-> "Chocolatey reported no matching package. Output: <snippet>"]
         ELSE IF return_code # 0
         THEN [status |-> "error", message |-> "<snippet>"]
         ELSE [status |-> "ok", message |-> "Chocolatey info located the package."]
    ELSE IF manager_key = S_scoop
    THEN interpret_scoop_result(identifier, return_code, output)
    ELSE [status |-> "skipped", message |-> "No verifier implemented for this manager."]

-----------------------------------------------------------------------------
(* External Invoker and the per-entry check *)

\* build_check_command raises ValueError for any other manager
build_check_command_ok(manager) ==
    lower(manager) \in {S_winget, S_choco, S_chocolatey, S_scoop}

\* What subprocess.run did: nothing was run, FileNotFoundError, another
\* OSError (PermissionError: the file is there and cannot be executed),
\* TimeoutExpired, or a completed process with its return code and its
\* stdout + stderr.
NoProc == [kind |-> "none", code |-> 0, output |-> <<>>]

LaunchFailure == [kind |-> "FileNotFoundError", code |-> 0, output |-> <<>>]

PermissionDenied == [kind |-> "PermissionError", code |-> 0, output |-> <<>>]

Timeout == [kind |-> "TimeoutExpired", code |-> 0, output |-> <<>>]

Completed(code, output) == [kind |-> "completed", code |-> code, output |-> output]

CheckResult(entry, manager_identifier, status, message, return_code) ==
    [entry |-> entry, manager_identifier |-> manager_identifier,
     status |-> status, message |-> message, return_code |-> return_code]

\* What check_package hands back to main: the CheckResult and how many
\* processes it started; raised is TRUE when an exception leaves it instead.
Checked(result, spawns) == [result |-> result, spawns |-> spawns, raised |-> FALSE]

\* An exception of subprocess.run that check_package does not catch
Uncaught(spawns) == [result |-> None, spawns |-> spawns, raised |-> TRUE]

\* check_package with `if manager_identifier is None` for `if not
\* manager_identifier`: an empty identifier is checked
check_package_none_only(entry, run) ==
    LET manager_identifier == extract_manager_identifier(entry) IN
    IF manager_identifier = None
    THEN Checked(CheckResult(entry, None, "skipped",
             "Unable to determine manager-specific identifier from command.", <<>>), 0)
    ELSE IF run.kind = "FileNotFoundError"
    THEN Checked(CheckResult(entry, manager_identifier, "error",
             "Failed to start CLI. Ensure it is installed.", <<>>), 1)
    ELSE IF run.kind = "TimeoutExpired"
    THEN Checked(CheckResult(entry, manager_identifier, "error",
             "Verification command exceeded the timeout.", <<>>), 1)
    ELSE IF run.kind # "completed"
    THEN Uncaught(1)
    ELSE LET r == interpret_manager_result(entry.manager, manager_identifier,
                                           run.code, run.output)
         IN Checked(CheckResult(entry, manager_identifier, r.status,
                                r.message, <<run.code>>), 1)

\* check_package(entry, timeout) against the outcome run of the one
\* subprocess.run call it can reach; only FileNotFoundError and
\* TimeoutExpired are caught (lines 355-374)
check_package(entry, run) ==
    LET manager_identifier == extract_manager_identifier(entry)
        cli_name == CLI_NAME_BY_MANAGER(lower(entry.manager))
    IN
    IF ~IsTruthy(manager_identifier)
    THEN Checked(CheckResult(entry, None, "skipped",
             "Unable to determine manager-specific identifier from command.", <<>>), 0)
    ELSE IF ~IsTruthy(cli_name)
    THEN Checked(CheckResult(entry, manager_identifier, "skipped",
             "No CLI mapping registered for manager.", <<>>), 0)
    ELSE IF ~build_check_command_ok(entry.manager)
    THEN Checked(CheckResult(entry, manager_identifier, "skipped",
             "Unsupported manager", <<>>), 0)
    ELSE IF run.kind = "FileNotFoundError"
    THEN Checked(CheckResult(entry, manager_identifier, "error",
             "Failed to start CLI. Ensure it is installed.", <<>>), 1)
    ELSE IF run.kind = "TimeoutExpired"
    THEN Checked(CheckResult(entry, manager_identifier, "error",
             "Verification command exceeded the timeout.", <<>>), 1)
    ELSE IF run.kind # "completed"
    THEN Uncaught(1)
    ELSE LET r == interpret_manager_result(entry.manager, manager_identifier,
                                           run.code, run.output)
         IN Checked(CheckResult(entry, manager_identifier, r.status,
                                r.message, <<run.code>>), 1)

-----------------------------------------------------------------------------
(* check_package_availability.main *)

\* {x.lower() for x in values if x}
lowered_filters(values) ==
    {lower(values[i]) : i \in {j \in 1..Len(values) : values[j] # <<>>}}

filter_entries(es, managers, package_ids) ==
    LET manager_filters == lowered_filters(managers)
        package_filters == lowered_filters(package_ids)
        Keep(entry) ==
            /\ manager_filters = {} \/ lower(entry.manager) \in manager_filters
            /\ package_filters = {} \/ lower(entry.package_id) \in package_filters
    IN SelectSeq(es, Keep)

\* check_exit_code that counts skipped entries whether or not --strict is set
check_exit_code_skipped_fail(rs, strict) ==
    IF \E i \in 1..Len(rs) : rs[i].status \in {"not-found", "error", "skipped"}
    THEN 1 ELSE 0

\* main's value once every entry is checked
check_exit_code(rs, strict) ==
    LET has_failure == \E i \in 1..Len(rs) : rs[i].status \in {"not-found", "error"}
        has_skipped == \E i \in 1..Len(rs) : rs[i].status = "skipped"
    IN IF has_failure \/ (strict /\ has_skipped) THEN 1 ELSE 0

-----------------------------------------------------------------------------
(* Inputs of the check run *)

MaxEntries == 2

O_empty == <<>>
O_choco_none ==
    <<"0"," ","p","a","c","k","a","g","e","s"," ","f","o","u","n","d">>
O_winget_none ==
    <<"N","o"," ","p","a","c","k","a","g","e"," ","f","o","u","n","d"," ","m","a","t","c","h","i","n","g"," ","i","n","p","u","t"," ","c","r","i","t","e","r","i","a",".">>
O_scoop_none ==
    <<"W","A","R","N"," "," ","N","o"," ","m","a","t","c","h","e","s"," ","f","o","u","n","d",".">>
O_scoop_hit ==
    <<"R","e","s","u","l","t","s"," ","f","r","o","m"," ","l","o","c","a","l"," ","b","u","c","k","e","t","s",".",".",".","\n","\n","g","i","t"," "," ","2",".","4","4"," "," ","m","a","i","n","\n">>
O_scoop_paren ==
    <<" "," ","G","i","t","(","m","a","i","n",")">>
O_scoop_exact ==
    <<"\n","G","I","T","\r","\n">>
O_scoop_prefix ==
    <<"g","i","t","e","a"," "," ","1",".","2","1"," "," ","m","a","i","n">>

C_winget_id ==
    <<"w","i","n","g","e","t"," ","i","n","s","t","a","l","l"," ","-","-","i","d"," ","G","i","t",".","G","i","t"," ","-","e">>
C_winget_git ==
    <<"w","i","n","g","e","t"," ","i","n","s","t","a","l","l"," ","g","i","t"," ","-","e">>
C_choco ==
    <<"c","h","o","c","o"," ","i","n","s","t","a","l","l"," ","g","i","t"," ","-","y">>
C_scoop ==
    <<"s","c","o","o","p"," ","i","n","s","t","a","l","l"," ","g","i","t">>
C_pip ==
    <<"p","i","p"," ","i","n","s","t","a","l","l"," ","g","i","t">>
C_winget_all ==
    <<"w","i","n","g","e","t"," ","u","p","g","r","a","d","e"," ","-","-","a","l","l">>
C_choco_blank ==
    <<"c","h","o","c","o"," ","i","n","s","t","a","l","l"," ","\"","\""," ","-","y">>

S_Git_Git == <<"G","i","t",".","G","i","t">>
S_git == <<"g","i","t">>
S_GIT == <<"G","I","T">>
S_Git == <<"G","i","t">>
S_Chocolatey == <<"C","h","o","c","o","l","a","t","e","y">>
S_Scoop == <<"S","c","o","o","p">>
S_pip == <<"p","i","p">>

PackageEntry(package_id, manager, command, name, index) ==
    [package_id |-> package_id, manager |-> manager, command |-> command,
     name |-> name, index |-> index]

\* Catalog entries as load_packages yields them (id and manager non-blank):
\* an id flag, the alias chocolatey, a mixed-case manager, an unsupported
\* manager, a command with flags only, and a quoted empty identifier.
EntryPool == {
    PackageEntry(S_git, S_winget, C_winget_id, S_Git, 0),
    PackageEntry(S_git, S_Chocolatey, C_choco, S_Git, 0),
    PackageEntry(S_Git, S_Scoop, C_scoop, <<>>, 0),
    PackageEntry(S_git, S_pip, C_pip, S_Git, 0),
    PackageEntry(S_Git_Git, S_winget, C_winget_all, S_Git, 0),
    PackageEntry(S_git, S_choco, C_choco_blank, <<>>, 0)}

SeqsUpTo(S, n) == UNION {[1..k -> S] : k \in 0..n}

\* load_packages on one file: the items of its packages list numbered from
\* 1 by enumerate, the fields stripped, an item without id or manager passed
\* over and still counted
load_file(packages) ==
    LET numbered == [i \in 1..Len(packages) |->
                        PackageEntry(strip(packages[i].package_id),
                                     strip(packages[i].manager),
                                     strip(packages[i].command),
                                     strip(packages[i].name), i)]
        Kept(entry) == entry.package_id # <<>> /\ entry.manager # <<>>
    IN SelectSeq(numbered, Kept)

\* load_packages: the entries of the files, in the order of the files
RECURSIVE load_packages(_)
load_packages(files) ==
    IF files = <<>> THEN <<>>
    ELSE load_file(Head(files)) \o load_packages(Tail(files))

\* An item of a packages list that has no id
NamelessItem == PackageEntry(<<>>, S_winget, C_winget_id, S_Git, 0)

\* The entries that the catalogs of more than one file, and those with a
\* nameless item, are made of
SplitPool == {
    PackageEntry(S_git, S_winget, C_winget_id, S_Git, 0),
    PackageEntry(S_Git, S_Scoop, C_scoop, <<>>, 0)}

\* The packages lists of the catalog files: one file of entries; one file
\* that begins with a nameless item; two files
CheckFiles ==
    {<<packages>> : packages \in SeqsUpTo(EntryPool, MaxEntries)}
    \cup {<<<<NamelessItem>> \o packages>> :
              packages \in SeqsUpTo(SplitPool, MaxEntries - 1)}
    \cup {files \in SeqsUpTo(SplitPool, MaxEntries - 1)
                        \X SeqsUpTo(SplitPool, MaxEntries - 1) :
              /\ files[1] # <<>> /\ files[2] # <<>>
              /\ Len(files[1]) + Len(files[2]) <= MaxEntries}

CheckCatalogs == {load_packages(files) : files \in CheckFiles}

\* parse_args, whether the packages directory exists under --root, and
\* whether iter_package_files found a file in it
CheckArgs(directory, files, managers, package_ids, strict) ==
    [directory |-> directory, files |-> files, managers |-> managers,
     package_ids |-> package_ids, strict |-> strict]

CheckArgsPool == {
    CheckArgs(FALSE, FALSE, <<>>, <<>>, FALSE),
    CheckArgs(TRUE, FALSE, <<>>, <<>>, FALSE),
    CheckArgs(TRUE, TRUE, <<>>, <<>>, FALSE),
    CheckArgs(TRUE, TRUE, <<>>, <<>>, TRUE),
    CheckArgs(TRUE, TRUE, <<S_Scoop>>, <<>>, FALSE),
    CheckArgs(TRUE, TRUE, <<>>, <<S_GIT>>, TRUE)}

ReturnCodes == {0, 1}

\* Combined stdout + stderr of a manager's CLI, for the classifier
ProcOutputs == {O_empty, O_choco_none, O_winget_none, O_scoop_none,
                O_scoop_hit, O_scoop_paren, O_scoop_exact, O_scoop_prefix}

\* The outputs a check run draws from
RunOutputs == {O_empty, O_choco_none, O_winget_none, O_scoop_exact}

NoSearch == [active |-> FALSE]

-----------------------------------------------------------------------------
(* The check run *)

InitCheck ==
    /\ prog = "check"
    /\ pc = "start"
    /\ args \in CheckArgsPool
    /\ catalog \in CheckCatalogs
    /\ ~args.files => catalog = <<>>
    /\ entries = <<>>
    /\ results = <<>>
    /\ proc = NoProc
    /\ spawned = <<>>
    /\ exitCode = <<>>
    /\ search = NoSearch

\* iter_package_files, lines 120-124: the packages directory is missing,
\* FileNotFoundError leaves main
CheckNoDirectory ==
    /\ prog = "check" /\ pc = "start"
    /\ ~args.directory
    /\ pc' = "crashed"
    /\ UNCHANGED <<prog, args, catalog, entries, results, proc, spawned,
                   exitCode, search>>

\* main, lines 498-501: no catalog file matched the glob
CheckNoFiles ==
    /\ prog = "check" /\ pc = "start"
    /\ args.directory /\ ~args.files
    /\ pc' = "done"
    /\ exitCode' = <<1>>
    /\ UNCHANGED <<prog, args, catalog, entries, results, proc, spawned, search>>

\* The filters leave no entry, taken as a failure
CheckNoEntries_failure ==
    /\ prog = "check" /\ pc = "start"
    /\ args.files
    /\ filter_entries(catalog, args.managers, args.package_ids) = <<>>
    /\ entries' = <<>>
    /\ pc' = "done"
    /\ exitCode' = <<1>>
    /\ UNCHANGED <<prog, args, catalog, results, proc, spawned, search>>

\* main, lines 503-507: the filters leave no entry
CheckNoEntries ==
    /\ prog = "check" /\ pc = "start"
    /\ args.files
    /\ filter_entries(catalog, args.managers, args.package_ids) = <<>>
    /\ entries' = <<>>
    /\ pc' = "done"
    /\ exitCode' = <<0>>
    /\ UNCHANGED <<prog, args, catalog, results, proc, spawned, search>>

\* main, lines 503-510: the loop begins
CheckBegin ==
    /\ prog = "check" /\ pc = "start"
    /\ args.files
    /\ filter_entries(catalog, args.managers, args.package_ids) # <<>>
    /\ entries' = filter_entries(catalog, args.managers, args.package_ids)
    /\ pc' = "loop"
    /\ UNCHANGED <<prog, args, catalog, results, proc, spawned, exitCode, search>>

\* One iteration of main's loop: check_package on the next entry, where the
\* process it starts (if it starts one) ends as run; after the last entry
\* main reports and returns.  An exception leaving check_package leaves main
\* too: nothing is reported and main returns no value.
CheckEntry(run) ==
    /\ prog = "check" /\ pc = "loop"
    /\ \E checked \in {check_package(entries[Len(results) + 1], run)} :
       LET rs == Append(results, checked.result)
       IN /\ checked.spawns = (IF run.kind = "none" THEN 0 ELSE 1)
          /\ spawned' = Append(spawned, checked.spawns)
          /\ proc' = run
          /\ IF checked.raised
             THEN /\ pc' = "crashed"
                  /\ UNCHANGED <<results, exitCode>>
             ELSE /\ results' = rs
                  /\ IF Len(rs) = Len(entries)
                     THEN /\ pc' = "done"
                          /\ exitCode' = <<check_exit_code(rs, args.strict)>>
                     ELSE UNCHANGED <<pc, exitCode>>
    /\ UNCHANGED <<prog, args, catalog, entries, search>>

CheckSkipped == CheckEntry(NoProc)

CheckLaunchFailure == CheckEntry(LaunchFailure)

CheckPermissionError == CheckEntry(PermissionDenied)

CheckTimeout == CheckEntry(Timeout)

CheckCompleted ==
    \E code \in ReturnCodes, output \in RunOutputs :
        CheckEntry(Completed(code, output))

NextCheck ==
    \/ CheckNoDirectory
    \/ CheckNoFiles
    \/ CheckNoEntries
    \/ CheckBegin
    \/ CheckSkipped
    \/ CheckLaunchFailure
    \/ CheckPermissionError
    \/ CheckTimeout
    \/ CheckCompleted

SpecCheck == InitCheck /\ [][NextCheck]_vars

-----------------------------------------------------------------------------
(* The classifier applied to one (manager, identifier, exit code, output) *)

ClassifyManagers == {S_winget, S_choco, S_Chocolatey, S_Scoop, S_pip}

ClassifyIdentifiers == {S_Git, S_Git_Git}

InitClassify ==
    /\ prog = "classify"
    /\ pc = "start"
    /\ args \in [manager : ClassifyManagers, identifier : ClassifyIdentifiers,
                 return_code : ReturnCodes, output : ProcOutputs]
    /\ catalog = <<>>
    /\ entries = <<>>
    /\ results = <<>>
    /\ proc = NoProc
    /\ spawned = <<>>
    /\ exitCode = <<>>
    /\ search = NoSearch

Classify ==
    /\ prog = "classify" /\ pc = "start"
    /\ results' = <<interpret_manager_result(args.manager, args.identifier,
                                             args.return_code, args.output)>>
    /\ pc' = "done"
    /\ UNCHANGED <<prog, args, catalog, entries, proc, spawned, exitCode, search>>

NextClassify == Classify

SpecClassify == InitClassify /\ [][NextClassify]_vars

-----------------------------------------------------------------------------
(* Claims about the classifier *)

Classified == prog = "classify" /\ pc = "done"

\* The not-found markers of the manager key
MarkersOf(manager_key) ==
    IF manager_key = S_winget THEN WINGET_NOT_FOUND_MARKERS
    ELSE IF manager_key \in {S_choco, S_chocolatey} THEN CHOCO_NOT_FOUND_MARKERS
    ELSE SCOOP_NOT_FOUND_MARKERS

HasMarker == ContainsAny(lower(args.output), MarkersOf(lower(args.manager)))

\* C1: for winget and choco (chocolatey), the status is decided in strict
\* precedence: a not-found marker in the output (case-insensitive) gives
\* "not-found" whatever the exit code; otherwise a non-zero exit code gives
\* "error"; otherwise "ok".
C1_MarkerThenCodePrecedence ==
    (Classified /\ lower(args.manager) \in {S_winget, S_choco, S_chocolatey}) =>
        results[1].status = (IF HasMarker THEN "not-found"
                             ELSE IF args.return_code # 0 THEN "error"
                             ELSE "ok")

\* choco, exit 1, "0 packages found" is classified not-found
C1_Witness ==
    /\ Classified
    /\ args.manager = S_choco
    /\ args.return_code = 1
    /\ args.output = O_choco_none
    /\ results[1].status = "not-found"

ScoopDelimiters == {" ", "("}

\* The stripped, lower-cased line begins with the lower-cased identifier,
\* followed by a delimiter or the end of the line
LeadsWithIdentifier(line, identifier) ==
    LET l == lower(strip(line))
        id == lower(identifier)
    IN /\ Len(l) >= Len(id)
       /\ \A k \in 1..Len(id) : l[k] = id[k]
       /\ (Len(l) = Len(id) \/ l[Len(id) + 1] \in ScoopDelimiters)

\* C2: for scoop with exit code 0 and no not-found marker, the status is
\* "ok" exactly when some non-blank output line begins with the identifier
\* (case-insensitive) followed by a delimiter or the end of the line, and
\* "not-found" otherwise (empty output included).
C2_ScoopNeedsMatchingLine ==
    (Classified /\ lower(args.manager) = S_scoop /\ args.return_code = 0
        /\ ~HasMarker) =>
        LET lines == splitlines(args.output)
            hit == \E i \in 1..Len(lines) :
                       /\ strip(lines[i]) # <<>>
                       /\ LeadsWithIdentifier(lines[i], args.identifier)
        IN results[1].status = (IF hit THEN "ok" ELSE "not-found")

\* scoop, exit 0, no marker, only a line of a longer name: not-found
C2_Witness ==
    /\ Classified
    /\ args.manager = S_Scoop
    /\ args.identifier = S_Git
    /\ args.return_code = 0
    /\ args.output = O_scoop_prefix
    /\ results[1].status = "not-found"

-----------------------------------------------------------------------------
(* Claims about the check run *)

SupportedManagers == {S_winget, S_choco, S_chocolatey, S_scoop}

Statuses == {"ok", "not-found", "error", "skipped"}

\* C3: an entry whose manager is unsupported or whose command yields no
\* manager-native identifier gets status "skipped" and no exit code, and no
\* process is started for it.
C3_SkippedWithoutProcess ==
    prog = "check" =>
        \A i \in 1..Len(results) :
            (\/ lower(results[i].entry.manager) \notin SupportedManagers
             \/ ~IsTruthy(extract_manager_identifier(results[i].entry)))
            => /\ results[i].status = "skipped"
               /\ results[i].return_code = <<>>
               /\ spawned[i] = 0

\* an unsupported manager and a command with an empty identifier, both skipped
C3_Witness ==
    /\ prog = "check" /\ Len(results) = 2
    /\ results[1].entry.manager = S_pip
    /\ results[2].entry.command = C_choco_blank
    /\ results[1].status = "skipped" /\ results[2].status = "skipped"
    /\ spawned = <<0, 0>>

\* The ways subprocess.run fails to start the executable
LaunchFailures == {"FileNotFoundError", "PermissionError"}

\* C4: when the executable cannot be started or the call times out,
\* check_package returns an outcome "error" with the extracted identifier
\* and no exit code; at most one process is started per entry.
C4_LaunchFailureAndTimeoutAreErrors ==
    prog = "check" =>
        /\ \A i \in 1..Len(spawned) : spawned[i] <= 1
        /\ (spawned # <<>> /\ proc.kind \in LaunchFailures \cup {"TimeoutExpired"})
           => /\ Len(results) = Len(spawned)
              /\ LET last == results[Len(results)] IN
                 /\ last.status = "error"
                 /\ IsTruthy(last.manager_identifier)
                 /\ last.manager_identifier = extract_manager_identifier(last.entry)
                 /\ last.return_code = <<>>
                 /\ spawned[Len(spawned)] = 1

\* The ways the process of an entry can end
CheckRuns ==
    {NoProc, LaunchFailure, PermissionDenied, Timeout}
    \cup {Completed(code, output) : code \in ReturnCodes, output \in RunOutputs}

\* The outcomes so far are one per filtered entry, in catalog order, each
\* with a status of the fixed set and what check_package gives for that
\* entry alone; once the entries are loaded the run is not aborted, has an
\* entry left to check while it loops, and ends with all of them.
OutcomesInOrder ==
    /\ Len(results) <= Len(entries)
    /\ \A i \in 1..Len(results) :
           /\ results[i].entry = entries[i]
           /\ results[i].status \in Statuses
           /\ \E run \in CheckRuns :
                  \E checked \in {check_package(entries[i], run)} :
                      ~checked.raised /\ results[i] = checked.result
    /\ entries \in {<<>>, filter_entries(catalog, args.managers, args.package_ids)}
    /\ pc \in {"start", "loop", "done"} \/ ~args.directory
    /\ pc = "loop" => Len(results) < Len(entries)
    /\ (pc = "done" /\ args.files) => Len(results) = Len(entries)

\* C5: a check run over n filtered entries always ends with exactly n
\* outcomes, one per entry in catalog order, each status in {ok, not-found,
\* error, skipped}; no launch failure, timeout, non-zero exit or skip aborts
\* the run or changes the outcome of another entry.
C5_RunCompletesWithAllOutcomes == prog = "check" => OutcomesInOrder

\* C6: with at least one entry checked, the exit code is 0 exactly when no
\* outcome is "not-found" or "error" and, under --strict, none is "skipped";
\* otherwise it is 1.
C6_ExitCodeReflectsFailures ==
    (prog = "check" /\ pc = "done" /\ results # <<>>) =>
        LET failed == \E i \in 1..Len(results) :
                          results[i].status \in {"not-found", "error"}
            skipped == \E i \in 1..Len(results) : results[i].status = "skipped"
        IN /\ exitCode \in {<<0>>, <<1>>}
           /\ exitCode = <<0>> <=> (~failed /\ (args.strict => ~skipped))

\* without --strict a run with an ok and a skipped outcome exits 0
C6_Witness ==
    /\ prog = "check" /\ pc = "done" /\ ~args.strict
    /\ Len(results) = 2
    /\ results[1].status = "skipped" /\ results[2].status = "ok"
    /\ exitCode = <<0>>

-----------------------------------------------------------------------------
(* suggest_catalog_fixes.py: Candidate Search *)

S_name_sp == <<"n","a","m","e"," ">>
S_name == <<"n","a","m","e">>
S_warn == <<"w","a","r","n">>
S_dashes4 == <<"-","-","-","-">>
S_no_packages_found ==
    <<"n","o"," ","p","a","c","k","a","g","e","s"," ","f","o","u","n","d">>
S_no_matches_found ==
    <<"n","o"," ","m","a","t","c","h","e","s"," ","f","o","u","n","d">>

\* SEARCH_CLI.get(key), None for an unknown name
SEARCH_CLI(key) ==
    IF key = S_winget THEN S_winget
    ELSE IF key \in {S_choco, S_chocolatey} THEN S_choco
    ELSE IF key = S_scoop THEN S_scoop
    ELSE None

SearchCandidate(manager, identifier, name, metadata, query, raw) ==
    [manager |-> manager, identifier |-> identifier, name |-> name,
     metadata |-> metadata, query |-> query, raw |-> raw]

\* What a search function does: it returns candidates, or an exception
\* (SearchError or subprocess.TimeoutExpired) leaves it.
Found(candidates) == [raised |-> "", message |-> "", candidates |-> candidates]

Raised(exception, message) ==
    [raised |-> exception, message |-> message, candidates |-> <<>>]

\* run_search_command: FileNotFoundError becomes SearchError; a timeout and
\* any other exception of subprocess.run are not caught here
run_search_command(run) ==
    IF run.kind = "FileNotFoundError"
    THEN Raised("SearchError", "CLI is not available on PATH.")
    ELSE IF run.kind = "TimeoutExpired"
    THEN Raised("TimeoutExpired", "Command timed out")
    ELSE IF run.kind # "completed"
    THEN Raised(run.kind, "Permission denied")
    ELSE Found(<<>>)

\* The exceptions search_for_record catches around search_fn (line 466)
CaughtBySearch == {"SearchError", "TimeoutExpired"}

\* re.split(r"\s{2,}", s): cut at every run of two or more whitespace
RECURSIVE re_split_spaces(_, _)
re_split_spaces(s, i) ==
    LET gaps == {j \in i..(Len(s) - 1) : IsSpace(s[j]) /\ IsSpace(s[j + 1])} IN
    IF gaps = {} THEN <<SubSeq(s, i, Len(s))>>
    ELSE <<SubSeq(s, i, MinOf(gaps) - 1)>>
         \o re_split_spaces(s, SkipSpaces(s, MinOf(gaps)))

split_columns(s) == re_split_spaces(s, 1)

\* [line.rstrip() for line in lines if line.strip()]
rstripped_lines(lines) ==
    LET kept == SelectSeq(lines, NotBlank) IN
    [i \in 1..Len(kept) |-> rstrip(kept[i])]

\* set(s) == {"-"}
OnlyDashes(s) == s # <<>> /\ \A i \in 1..Len(s) : s[i] = "-"

\* The metadata dict of a winget row, as its (key, value) items in order
winget_metadata(columns) ==
    (IF Len(columns) >= 3 THEN <<<<"version", columns[3]>>>> ELSE <<>>)
    \o (IF Len(columns) >= 4 THEN <<<<"source", columns[4]>>>> ELSE <<>>)

\* A line of the winget table that yields a candidate: no "Name " header,
\* no dash rule, and at least two columns
IsWingetRow(line) ==
    /\ ~startswith(lower(line), S_name_sp)
    /\ ~OnlyDashes(strip(line))
    /\ Len(split_columns(strip(line))) >= 2

winget_candidate(line, query) ==
    LET columns == split_columns(strip(line)) IN
    SearchCandidate(S_winget, columns[2], columns[1], winget_metadata(columns),
                    query, line)

parse_winget_output(output, query) ==
    LET rows == SelectSeq(rstripped_lines(splitlines(output)), IsWingetRow) IN
    [i \in 1..Len(rows) |-> winget_candidate(rows[i], query)]

\* A search_winget without the test for an exit code with no output
search_winget_unchecked(query, run) ==
    IF run_search_command(run).raised # "" THEN run_search_command(run)
    ELSE Found(parse_winget_output(run.output, query))

search_winget(query, run) ==
    IF run_search_command(run).raised # "" THEN run_search_command(run)
    ELSE IF run.code # 0 /\ strip(run.output) = <<>>
    THEN Raised("SearchError", "winget search returned no output")
    ELSE Found(parse_winget_output(run.output, query))

\* str.split(sep) for a one-character separator
RECURSIVE split_on(_, _, _)
split_on(s, sep, i) ==
    LET stop == NextIndex(s, i, {sep}, TRUE) IN
    IF stop > Len(s) THEN <<SubSeq(s, i, Len(s))>>
    ELSE <<SubSeq(s, i, stop - 1)>> \o split_on(s, sep, stop + 1)

\* A line of the choco output that yields a candidate
IsChocoRow(line) == strip(line) # <<>> /\ Contains(strip(line), <<"|">>)

choco_candidate(raw_line, query) ==
    LET line == strip(raw_line)
        parts == split_on(line, "|", 1)
        identifier == strip(parts[1])
        version == IF Len(parts) > 1 THEN strip(parts[2]) ELSE <<>>
    IN SearchCandidate(S_choco, identifier, identifier,
                       <<<<"version", version>>>>, query, line)

parse_choco_lines(lines, query) ==
    LET rows == SelectSeq(lines, IsChocoRow) IN
    [i \in 1..Len(rows) |-> choco_candidate(rows[i], query)]

search_choco(query, run) ==
    IF run_search_command(run).raised # "" THEN run_search_command(run)
    ELSE IF Contains(lower(run.output), S_no_packages_found) THEN Found(<<>>)
    ELSE IF run.code # 0 /\ strip(run.output) = <<>>
    THEN Raised("SearchError", "choco search returned no output")
    ELSE Found(parse_choco_lines(splitlines(run.output), query))

\* A line the loop of search_scoop passes over: blank, a "Name " header, a
\* "----" rule or a "warn" line
IsScoopNoise(line) ==
    LET lowered == lower(strip(line)) IN
    \/ lowered = <<>>
    \/ startswith(lowered, S_name_sp)
    \/ startswith(lowered, S_dashes4)
    \/ startswith(lowered, S_warn)

\* A line that makes the loop `return []`
IsScoopNoMatches(line) ==
    ~IsScoopNoise(line) /\ Contains(lower(strip(line)), S_no_matches_found)

\* A line of the scoop output that yields a candidate
IsScoopRow(line) ==
    /\ ~IsScoopNoise(line)
    /\ split_columns(strip(line))[1] # <<>>
    /\ lower(split_columns(strip(line))[1]) \notin {S_name, S_warn}

scoop_candidate(line, query) ==
    LET columns == split_columns(strip(line))
        identifier == columns[1]
        bucket == IF Len(columns) >= 2 THEN columns[2] ELSE <<>>
        metadata == IF bucket # <<>> THEN <<<<"bucket", bucket>>>> ELSE <<>>
    IN SearchCandidate(S_scoop, identifier, identifier, metadata, query, line)

parse_scoop_lines(lines, query) ==
    LET rows == SelectSeq(lines, IsScoopRow) IN
    IF \E i \in 1..Len(lines) : IsScoopNoMatches(lines[i]) THEN <<>>
    ELSE [i \in 1..Len(rows) |-> scoop_candidate(rows[i], query)]

search_scoop(query, run) ==
    IF run_search_command(run).raised # "" THEN run_search_command(run)
    ELSE IF Contains(lower(run.output), S_no_matches_found) THEN Found(<<>>)
    ELSE IF run.code # 0 /\ strip(run.output) = <<>>
    THEN Raised("SearchError", "scoop search returned no output")
    ELSE Found(parse_scoop_lines(splitlines(run.output), query))

\* SEARCH_FUNCTIONS[manager](query, timeout)
search_fn(manager, query, run) ==
    IF manager = S_winget THEN search_winget(query, run)
    ELSE IF manager = S_choco THEN search_choco(query, run)
    ELSE search_scoop(query, run)

\* the keys of SEARCH_FUNCTIONS
SEARCH_FUNCTIONS == {S_winget, S_choco, S_scoop}


-----------------------------------------------------------------------------
(* suggest_catalog_fixes.py: Suggestion Scorer *)

\* Scores are Python floats: IEEE 754 doubles, every operation rounded to
\* the nearest double, ties to the even mantissa. The float 0.0 is
\* <<0, 0, 0, 0>>; a positive float is <<e, hi, mid, lo>>, the exponent e
\* and a mantissa of 53 bits held in three limbs of 20 bits, with
\* Limb <= hi < 2 * Limb and lo a multiple of 256: the double
\* (hi * Limb * Limb + mid * Limb + lo) / 2^60 * 2^e, the mantissa being in
\* [1, 2). No score of the program is negative, subnormal or infinite.
Limb == 1024 * 1024

\* The limbs with the carries moved up; the first limb has no bound
Carry(x) ==
    <<x[1] + (x[2] + x[3] \div Limb) \div Limb,
      (x[2] + x[3] \div Limb) % Limb,
      x[3] % Limb>>

\* The limbs of x / 2, the lowest bit dropped
Halve(x) ==
    [i \in 1..Len(x) |->
        (IF i > 1 THEN (x[i - 1] % 2) * (Limb \div 2) ELSE 0) + x[i] \div 2]

\* The limbs of x / 2^k (of x * 2^-k for k < 0), and whether a 1 was among
\* the bits dropped
RECURSIVE Shift(_, _, _)
Shift(x, k, lost) ==
    IF k = 0 \/ \A i \in 1..Len(x) : x[i] = 0
    THEN [limbs |-> x, lost |-> lost]
    ELSE IF k > 0
    THEN Shift(Halve(x), k - 1, lost \/ x[Len(x)] % 2 = 1)
    ELSE Shift([i \in 1..Len(x) |->
                   (IF i = 1 THEN 2 * x[i] ELSE (2 * x[i]) % Limb)
                   + (IF i < Len(x) THEN (2 * x[i + 1]) \div Limb ELSE 0)],
               k + 1, lost)

\* The float nearest to (x + n / d) / 2^60 * 2^e, for limbs x with
\* Limb <= x[1] < 4 * Limb and 0 <= n < d: the mantissa is cut to 53 bits,
\* round to nearest, ties to even, and brought back into [1, 2)
RoundToDouble(e, x, n, d) ==
    LET u == IF x[1] < 2 * Limb THEN 256 ELSE 512
        rem == x[3] % u
        twice == 2 * ((x[3] % u) * d + n)
        odd == ((x[3] - (x[3] % u)) \div u) % 2 = 1
    IN CHOOSE q \in
        {IF r[1] >= 4 * Limb THEN <<e + 2>> \o Halve(Halve(r))
         ELSE IF r[1] >= 2 * Limb THEN <<e + 1>> \o Halve(r)
         ELSE <<e>> \o r :
            r \in {IF twice > u * d \/ (twice = u * d /\ odd)
                   THEN Carry(<<x[1], x[2], x[3] - rem + u>>)
                   ELSE <<x[1], x[2], x[3] - rem>>}} : TRUE

\* k base-1024 digits of r / d after the point, then the remainder
RECURSIVE QuotientDigits(_, _, _)
QuotientDigits(r, d, k) ==
    IF k = 0 THEN <<r>>
    ELSE <<(r * 1024) \div d>> \o QuotientDigits((r * 1024) % d, d, k - 1)

\* The float nearest to (n / d) * 2^e, for 0 < n and 0 < d: n / d is
\* brought into [1, 2) and divided out to 60 bits after the point
RECURSIVE Quotient(_, _, _)
Quotient(n, d, e) ==
    IF n < d THEN Quotient(2 * n, d, e - 1)
    ELSE IF n >= 2 * d THEN Quotient(n, 2 * d, e + 1)
    ELSE CHOOSE q \in
        {RoundToDouble(e, <<Limb + t[1] * 1024 + t[2],
                            t[3] * 1024 + t[4],
                            t[5] * 1024 + t[6]>>, t[7], d) :
            t \in {QuotientDigits(n - d, d, 6)}} : TRUE

\* The float n / d of two integers, 0 <= n and 0 < d, both below 2^17
Float(n, d) == IF n = 0 THEN <<0, 0, 0, 0>> ELSE Quotient(n, d, 0)

\* x + y of two floats: the mantissa of the smaller is shifted to the
\* exponent of the larger, and the exact sum is rounded; a 1 among the bits
\* shifted out counts as half a unit of the lowest limb, which is below half
\* of the last place and above nothing
FloatAdd(x, y) ==
    IF x[2] = 0 THEN y
    ELSE IF y[2] = 0 THEN x
    ELSE LET big == IF x[1] >= y[1] THEN x ELSE y
             small == IF x[1] >= y[1] THEN y ELSE x
         IN CHOOSE sum \in
             {RoundToDouble(big[1],
                            Carry(<<big[2] + s.limbs[1], big[3] + s.limbs[2],
                                    big[4] + s.limbs[3]>>),
                            IF s.lost THEN 1 ELSE 0, 2) :
                 s \in {Shift(<<small[2], small[3], small[4]>>,
                              big[1] - small[1], FALSE)}} : TRUE

\* x < y
FloatLT(x, y) ==
    IF y[2] = 0 THEN FALSE
    ELSE IF x[2] = 0 THEN TRUE
    ELSE \/ x[1] < y[1]
         \/ x[1] = y[1] /\ x[2] < y[2]
         \/ x[1] = y[1] /\ x[2] = y[2] /\ x[3] < y[3]
         \/ x[1] = y[1] /\ x[2] = y[2] /\ x[3] = y[3] /\ x[4] < y[4]

FloatLE(x, y) == x = y \/ FloatLT(x, y)

\* min(x, y)
FloatMin(x, y) == IF FloatLE(x, y) THEN x ELSE y

\* max(scores) of a non-empty list: the first of the largest
FloatMaxOf(scores) ==
    scores[MinOf({i \in 1..Len(scores) :
                     \A j \in 1..Len(scores) : FloatLE(scores[j], scores[i])})]

\* 0.0
Zero == <<0, 0, 0, 0>>

\* 1.0
One == <<0, Limb, 0, 0>>

\* SequenceMatcher's autojunk: when b has 200 or more characters, a character
\* that fills more than 1% of b (plus one) is left out of the index b2j
IsPopular(b, c) ==
    /\ Len(b) >= 200
    /\ Cardinality({j \in 1..Len(b) : b[j] = c}) > Len(b) \div 100 + 1

\* The length of the longest run of equal indexed characters that ends at
\* a[i], b[j] and stays at or after alo, blo (k of find_longest_match)
RunLength(a, b, alo, blo, i, j) ==
    LET span == 0..MinOf({i - alo, j - blo})
        breaks == {t \in span : a[i - t] # b[j - t] \/ IsPopular(b, b[j - t])}
    IN IF breaks = {} THEN MinOf({i - alo, j - blo}) + 1 ELSE MinOf(breaks)

\* The block of find_longest_match that ends at a[endi], b[endj] with
\* bestsize indexed characters (none when bestsize = 0), extended over the
\* equal characters before it and after it that the index left out
extend_match(a, b, alo, ahi, blo, bhi, endi, endj, bestsize) ==
    LET besti == IF bestsize = 0 THEN alo ELSE endi - bestsize + 1
        bestj == IF bestsize = 0 THEN blo ELSE endj - bestsize + 1
        backSpan == 1..MinOf({besti - alo, bestj - blo})
        backBreaks == {t \in backSpan : a[besti - t] # b[bestj - t]}
        back == IF backBreaks = {} THEN MinOf({besti - alo, bestj - blo})
                ELSE MinOf(backBreaks) - 1
        room == MinOf({ahi - (besti + bestsize), bhi - (bestj + bestsize)})
        fwdBreaks == {t \in 0..(room - 1) :
                         a[besti + bestsize + t] # b[bestj + bestsize + t]}
        fwd == IF fwdBreaks = {} THEN room ELSE MinOf(fwdBreaks)
    IN [i |-> besti - back, j |-> bestj - back, size |-> bestsize + back + fwd]

\* SequenceMatcher.find_longest_match over a[alo..ahi-1], b[blo..bhi-1]
\* (1-based, ahi and bhi exclusive): the longest block of indexed
\* characters, the earliest in a and then in b, extended.  runs holds
\* <<i, j, k>> for every pair of end positions.
find_longest_match(a, b, alo, ahi, blo, bhi) ==
    LET runs == {<<e[1], e[2], RunLength(a, b, alo, blo, e[1], e[2])>> :
                    e \in (alo..(ahi - 1)) \X (blo..(bhi - 1))}
        First(r) ==
            \A q \in runs :
                \/ q[3] < r[3]
                \/ q[3] = r[3] /\ (r[1] < q[1] \/ (r[1] = q[1] /\ r[2] <= q[2]))
    IN IF runs = {} THEN extend_match(a, b, alo, ahi, blo, bhi, alo, blo, 0)
       ELSE CHOOSE m \in {extend_match(a, b, alo, ahi, blo, bhi, r[1], r[2], r[3]) :
                             r \in {q \in runs : First(q)}} : TRUE

\* The total size of the blocks of get_matching_blocks around the longest
\* match m: m, then the same to its left and to its right
RECURSIVE matches(_, _, _, _, _, _)
matches_around(a, b, alo, ahi, blo, bhi, m) ==
    IF m.size = 0 THEN 0
    ELSE m.size
         + (IF alo < m.i /\ blo < m.j
            THEN matches(a, b, alo, m.i, blo, m.j) ELSE 0)
         + (IF m.i + m.size < ahi /\ m.j + m.size < bhi
            THEN matches(a, b, m.i + m.size, ahi, m.j + m.size, bhi) ELSE 0)

\* The total size of SequenceMatcher.get_matching_blocks
matches(a, b, alo, ahi, blo, bhi) ==
    CHOOSE total \in {matches_around(a, b, alo, ahi, blo, bhi, m) :
                         m \in {find_longest_match(a, b, alo, ahi, blo, bhi)}} :
        TRUE

\* SequenceMatcher(None, a, b).ratio() == 2.0 * matches / (len(a) + len(b))
ratio(a, b) ==
    IF Len(a) + Len(b) = 0 THEN One
    ELSE Float(2 * matches(a, b, 1, Len(a) + 1, 1, Len(b) + 1), Len(a) + Len(b))

\* compute_similarity that compares the strings as they are written
compute_similarity_case_sensitive(a, b) ==
    IF a = <<>> \/ b = <<>> THEN Zero ELSE ratio(a, b)

compute_similarity(a, b) ==
    IF a = <<>> \/ b = <<>> THEN Zero ELSE ratio(lower(a), lower(b))

\* A bonus added without the clamp
add_bonus_unclamped(base, bonus) == FloatAdd(base, bonus)

\* min(base + bonus, 1.0)
add_bonus(base, bonus) == FloatMin(FloatAdd(base, bonus), One)

\* The list scores of score_candidates for one candidate
similarities(entry, manager_identifier, candidate) ==
    <<compute_similarity(entry.package_id, candidate.identifier)>>
    \o (IF entry.name # <<>>
        THEN <<compute_similarity(entry.name, candidate.name),
               compute_similarity(entry.name, candidate.identifier)>>
        ELSE <<>>)
    \o (IF IsTruthy(manager_identifier)
        THEN <<compute_similarity(manager_identifier, candidate.identifier)>>
        ELSE <<>>)

\* base0 and base after each of the three bonus tests; the literals 0.2,
\* 0.1 and 0.05 are the floats nearest to 2/10, 1/10 and 5/100
bonus_steps(entry, manager_identifier, candidate, base0) ==
    LET base1 == IF lower(candidate.identifier) = lower(entry.package_id)
                 THEN add_bonus(base0, Float(2, 10)) ELSE base0
        base2 == IF /\ IsTruthy(manager_identifier)
                    /\ lower(candidate.identifier) = lower(manager_identifier)
                 THEN add_bonus(base1, Float(1, 10)) ELSE base1
        base3 == IF candidate.manager = entry.manager
                 THEN add_bonus(base2, Float(5, 100)) ELSE base2
    IN <<base0, base1, base2, base3>>

\* The values base takes in score_candidates for one candidate: the largest
\* similarity, then base after each of the three bonus tests
score_steps(entry, manager_identifier, candidate) ==
    CHOOSE steps \in
        {bonus_steps(entry, manager_identifier, candidate, FloatMaxOf(scores)) :
            scores \in {similarities(entry, manager_identifier, candidate)}} :
        TRUE

ScoredSuggestion(score, candidate) ==
    [score |-> score, manager |-> candidate.manager,
     identifier |-> candidate.identifier, name |-> candidate.name,
     metadata |-> candidate.metadata, query |-> candidate.query,
     raw |-> candidate.raw]

\* A descending sort that puts equal scores in reverse order
sort_by_score_ties_reversed(items) ==
    LET n == Len(items)
        rank(i) == Cardinality({j \in 1..n :
                       \/ FloatLT(items[i].score, items[j].score)
                       \/ items[j].score = items[i].score /\ j > i}) + 1
    IN [k \in 1..n |-> items[CHOOSE i \in 1..n : rank(i) = k]]

\* list.sort(key=lambda item: item.score, reverse=True): descending by
\* score, equal scores keeping their order
sort_by_score(items) ==
    LET n == Len(items)
        rank(i) == Cardinality({j \in 1..n :
                       \/ FloatLT(items[i].score, items[j].score)
                       \/ items[j].score = items[i].score /\ j < i}) + 1
    IN [k \in 1..n |-> items[CHOOSE i \in 1..n : rank(i) = k]]

score_candidates(entry, manager_identifier, candidates) ==
    CHOOSE sorted \in
        {sort_by_score(scored) :
            scored \in {[i \in 1..Len(candidates) |->
                ScoredSuggestion(score_steps(entry, manager_identifier,
                                             candidates[i])[4],
                                 candidates[i])] \o <<>>}} :
        TRUE

\* A de-duplication whose key keeps the identifier's letter case
dedupe_candidates_case_sensitive(candidates) ==
    LET IsFirst(i) ==
            \A j \in 1..(i - 1) :
                \/ candidates[j].manager # candidates[i].manager
                \/ candidates[j].identifier # candidates[i].identifier
        firsts == {i \in 1..Len(candidates) : IsFirst(i)}
        nth(k) == CHOOSE i \in firsts : Cardinality({j \in firsts : j < i}) = k - 1
    IN [k \in 1..Cardinality(firsts) |-> candidates[nth(k)]]

\* dedupe_candidates: the first candidate of every
\* (manager, identifier.lower()), in first-seen order
dedupe_candidates(candidates) ==
    LET IsFirst(i) ==
            \A j \in 1..(i - 1) :
                \/ candidates[j].manager # candidates[i].manager
                \/ lower(candidates[j].identifier) # lower(candidates[i].identifier)
        firsts == {i \in 1..Len(candidates) : IsFirst(i)}
        nth(k) == CHOOSE i \in firsts : Cardinality({j \in firsts : j < i}) = k - 1
    IN [k \in 1..Cardinality(firsts) |-> candidates[nth(k)]]


-----------------------------------------------------------------------------
(* suggest_catalog_fixes.py: search_for_record and main *)

S_winget_install_id ==
    <<"w","i","n","g","e","t"," ","i","n","s","t","a","l","l"," ","-","-","i","d"," ">>
S_winget_install_tail ==
    <<" ","-","-","e","x","a","c","t"," ","-","-","s","o","u","r","c","e"," ","w","i","n","g","e","t"," ","-","-","d","i","s","a","b","l","e","-","i","n","t","e","r","a","c","t","i","v","i","t","y">>
S_choco_install ==
    <<"c","h","o","c","o"," ","i","n","s","t","a","l","l"," ">>
S_dash_y ==
    <<" ","-","y">>
S_scoop_install ==
    <<"s","c","o","o","p"," ","i","n","s","t","a","l","l"," ">>
S_sp_install_sp ==
    <<" ","i","n","s","t","a","l","l"," ">>

S_not_found == <<"n","o","t","-","f","o","u","n","d">>
S_error == <<"e","r","r","o","r">>

build_install_command(manager, identifier) ==
    IF manager = S_winget
    THEN S_winget_install_id \o identifier \o S_winget_install_tail
    ELSE IF manager = S_choco THEN S_choco_install \o identifier \o S_dash_y
    ELSE IF manager = S_scoop THEN S_scoop_install \o identifier
    ELSE manager \o S_sp_install_sp \o identifier

ResultRecord(entry, status, message, manager_identifier) ==
    [entry |-> entry, status |-> status, message |-> message,
     manager_identifier |-> manager_identifier]

\* x or y
Or(x, y) == IF IsTruthy(x) THEN x ELSE y

\* The loop of gather_queries: the stripped values that are not blank, each
\* once (compared in lower case), in order
RECURSIVE distinct_texts(_, _)
distinct_texts(values, acc) ==
    IF values = <<>> THEN acc
    ELSE LET text == strip(Or(Head(values), <<>>)) IN
         IF text # <<>> /\ \A i \in 1..Len(acc) : lower(acc[i]) # lower(text)
         THEN distinct_texts(Tail(values), Append(acc, text))
         ELSE distinct_texts(Tail(values), acc)

\* A gather_queries that lists the manager identifier before the package id
gather_queries_native_first(record) ==
    LET entry == record.entry
        manager_identifier ==
            Or(record.manager_identifier, extract_manager_identifier(entry))
        updated ==
            IF IsTruthy(manager_identifier) /\ ~IsTruthy(record.manager_identifier)
            THEN [record EXCEPT !.manager_identifier = manager_identifier]
            ELSE record
        queries == distinct_texts(<<updated.manager_identifier, entry.package_id,
                                    entry.name>>, <<>>)
    IN [record |-> updated,
        queries |-> IF queries # <<>> THEN queries ELSE <<entry.package_id>>]

\* A gather_queries that takes the manager identifier from the command even
\* when the record has one
gather_queries_overwriting(record) ==
    LET entry == record.entry
        manager_identifier == extract_manager_identifier(entry)
        updated ==
            IF IsTruthy(manager_identifier)
            THEN [record EXCEPT !.manager_identifier = manager_identifier]
            ELSE record
        queries == distinct_texts(<<entry.package_id, updated.manager_identifier,
                                    entry.name>>, <<>>)
    IN [record |-> updated,
        queries |-> IF queries # <<>> THEN queries ELSE <<entry.package_id>>]

\* gather_queries: the record as it leaves it (a missing manager identifier
\* filled in from the command) and the queries it returns
gather_queries(record) ==
    LET entry == record.entry
        manager_identifier ==
            Or(record.manager_identifier, extract_manager_identifier(entry))
        updated ==
            IF IsTruthy(manager_identifier) /\ ~IsTruthy(record.manager_identifier)
            THEN [record EXCEPT !.manager_identifier = manager_identifier]
            ELSE record
        queries == distinct_texts(<<entry.package_id, updated.manager_identifier,
                                    entry.name>>, <<>>)
    IN [record |-> updated,
        queries |-> IF queries # <<>> THEN queries ELSE <<entry.package_id>>]

\* A filter that lets every status pass
filter_records_any_status(records, managers, package_ids) ==
    LET manager_filters == lowered_filters(managers)
        package_filters == lowered_filters(package_ids)
        Keep(record) ==
            /\ manager_filters = {}
               \/ lower(record.entry.manager) \in manager_filters
            /\ package_filters = {}
               \/ lower(record.entry.package_id) \in package_filters
    IN SelectSeq(records, Keep)

filter_records(records, managers, package_ids) ==
    LET manager_filters == lowered_filters(managers)
        package_filters == lowered_filters(package_ids)
        Keep(record) ==
            /\ manager_filters = {}
               \/ lower(record.entry.manager) \in manager_filters
            /\ package_filters = {}
               \/ lower(record.entry.package_id) \in package_filters
            /\ lower(record.status) \in {S_not_found, S_error}
    IN SelectSeq(records, Keep)

\* A resolve_search_managers that sorts the resolved names without making a
\* set of them
resolve_search_managers_with_repeats(search_managers) ==
    LET resolved == [i \in 1..Len(search_managers) |->
                        IF SEARCH_CLI(lower(search_managers[i])) = S_choco
                        THEN S_choco ELSE lower(search_managers[i])]
        IsWinget(m) == m = S_winget
        IsChoco(m) == m = S_choco
        IsScoop(m) == m = S_scoop
    IN IF search_managers # <<>>
       THEN SelectSeq(resolved, IsWinget) \o SelectSeq(resolved, IsChoco)
                \o SelectSeq(resolved, IsScoop)
       ELSE <<S_winget, S_choco, S_scoop>>

\* resolve_search_managers: the known names with chocolatey written choco,
\* each once, winget first and the others in alphabetical order
resolve_search_managers(search_managers) ==
    LET keys == {lower(search_managers[i]) : i \in 1..Len(search_managers)}
        resolved == {IF SEARCH_CLI(key) = S_choco THEN S_choco ELSE key :
                        key \in {k \in keys : SEARCH_CLI(k) # None}}
        Resolved(m) == m \in resolved
    IN IF search_managers # <<>>
       THEN SelectSeq(<<S_winget, S_choco, S_scoop>>, Resolved)
       ELSE <<S_winget, S_choco, S_scoop>>

\* suggestions[:limit]
Slice(seq, limit) ==
    IF limit >= 0 THEN SubSeq(seq, 1, MinOf({limit, Len(seq)}))
    ELSE SubSeq(seq, 1, MaxOf({Len(seq) + limit, 0}))

\* y * 100 of four limbs, the first without a bound
Times100(y) ==
    <<y[1] * 100 + (y[2] * 100 + (y[3] * 100 + (y[4] * 100) \div Limb) \div Limb) \div Limb,
      (y[2] * 100 + (y[3] * 100 + (y[4] * 100) \div Limb) \div Limb) % Limb,
      (y[3] * 100 + (y[4] * 100) \div Limb) % Limb,
      (y[4] * 100) % Limb>>

\* round(score, 4): the exact value of the float, times 10000, is rounded
\* to an integer, a value half-way between two going to the even one, and
\* the float nearest to that many ten-thousandths is returned
round4(score) ==
    CHOOSE rounded \in
        {Float(IF \/ y.limbs[2] > Limb \div 2
                  \/ /\ y.limbs[2] = Limb \div 2
                     /\ (y.limbs[3] > 0 \/ y.limbs[4] > 0 \/ y.lost)
                  \/ /\ y.limbs[2] = Limb \div 2
                     /\ y.limbs[3] = 0 /\ y.limbs[4] = 0 /\ ~y.lost
                     /\ y.limbs[1] % 2 = 1
               THEN y.limbs[1] + 1 ELSE y.limbs[1], 10000) :
            y \in {Shift(Times100(Times100(<<score[2] \div Limb,
                                             score[2] % Limb,
                                             score[3], score[4]>>)),
                         0 - score[1], FALSE)}} : TRUE

build_output_record(record, suggestions, notes, limit) ==
    LET shown == Slice(suggestions, limit) IN
    [package_id |-> record.entry.package_id,
     manager |-> record.entry.manager,
     status |-> record.status,
     message |-> record.message,
     index |-> record.entry.index,
     manager_identifier |-> record.manager_identifier,
     suggestions |-> [i \in 1..Len(shown) |->
        [manager |-> shown[i].manager,
         identifier |-> shown[i].identifier,
         name |-> shown[i].name,
         score |-> round4(shown[i].score),
         command |-> build_install_command(shown[i].manager,
                                           shown[i].identifier),
         metadata |-> shown[i].metadata,
         query |-> shown[i].query,
         raw |-> shown[i].raw]],
     notes |-> notes]

\* A line of notes: "<manager>: <message>", the queries named by the
\* no-matches message kept apart
Note(manager, message, queries) ==
    [manager |-> manager, message |-> message, queries |-> queries]

\* The local state of search_for_record on record idx of main's loop: the
\* queries, the manager and the query the loops stand at, last_error ("" for
\* None), scored and notes; calls is the turns the loop over the queries has
\* taken for the manager at hand, kept while last_error and
\* manager_candidates are; found is every candidate the search functions
\* returned for this record, in the order they came; suggestions and
\* returned_notes are what the last call of search_for_record returned.
SearchState(idx, managers) ==
    [active |-> TRUE, idx |-> idx, managers |-> managers, queries |-> <<>>,
     mi |-> 1, qi |-> 1, last_error |-> "", calls |-> <<>>, scored |-> <<>>,
     notes |-> <<>>, found |-> <<>>, suggestions |-> <<>>,
     returned_notes |-> <<>>]

\* A note that never carries the last error
no_candidates_no_matches_only(s) ==
    [s EXCEPT !.mi = s.mi + 1, !.qi = 1, !.last_error = "",
              !.notes = Append(s.notes,
                  Note(s.managers[s.mi], "no matches for queries", s.queries))]

\* search_for_record, lines 471-477: the note of a manager whose queries
\* gave no candidate, and the next manager
no_candidates(s) ==
    [s EXCEPT !.mi = s.mi + 1, !.qi = 1, !.last_error = "",
              !.notes = Append(s.notes,
                  IF s.last_error # ""
                  THEN Note(s.managers[s.mi], s.last_error, <<>>)
                  ELSE Note(s.managers[s.mi], "no matches for queries",
                            s.queries))]

\* An after_search that also notes the last failure of a manager whose later
\* query yielded candidates
after_search_noting_failures(record, s, outcome) ==
    IF outcome.raised # ""
    THEN IF s.qi < Len(s.queries)
         THEN [s EXCEPT !.last_error = outcome.message, !.qi = s.qi + 1]
         ELSE no_candidates([s EXCEPT !.last_error = outcome.message])
    ELSE IF outcome.candidates # <<>>
    THEN [s EXCEPT !.mi = s.mi + 1, !.qi = 1, !.last_error = "",
                   !.notes = IF s.last_error # ""
                             THEN Append(s.notes, Note(s.managers[s.mi],
                                                       s.last_error, <<>>))
                             ELSE s.notes,
                   !.found = s.found \o outcome.candidates,
                   !.scored = s.scored \o
                       score_candidates(record.entry, record.manager_identifier,
                                        dedupe_candidates(outcome.candidates))]
    ELSE IF s.qi < Len(s.queries)
    THEN [s EXCEPT !.qi = s.qi + 1]
    ELSE no_candidates(s)

\* search_for_record, lines 463-481: the local state after
\* search_fn(query, timeout) ended as outcome
after_search(record, s, outcome) ==
    IF outcome.raised # ""
    THEN IF s.qi < Len(s.queries)
         THEN [s EXCEPT !.last_error = outcome.message, !.qi = s.qi + 1]
         ELSE no_candidates([s EXCEPT !.last_error = outcome.message])
    ELSE IF outcome.candidates # <<>>
    THEN [s EXCEPT !.mi = s.mi + 1, !.qi = 1, !.last_error = "",
                   !.found = s.found \o outcome.candidates,
                   !.scored = s.scored \o
                       score_candidates(record.entry, record.manager_identifier,
                                        dedupe_candidates(outcome.candidates))]
    ELSE IF s.qi < Len(s.queries)
    THEN [s EXCEPT !.qi = s.qi + 1]
    ELSE no_candidates(s)

-----------------------------------------------------------------------------
(* The suggestion run *)

\* The longest list of check results a suggestion run reads
MaxRecords == 3

S_CHOCO ==
    <<"C","H","O","C","O">>
T_winget ==
    <<"N","a","m","e"," "," "," ","I","d"," "," "," "," "," "," "," ","V","e","r","s","i","o","n"," "," ","S","o","u","r","c","e","\n","-","-","-","-","-","-","-","-","-","-","-","-","-","-","-","-","-","-","-","-","-","-","-","-","-","-","-","-","-","-","-","-","-","\n","G","i","t"," "," "," "," ","G","i","t",".","G","i","t"," "," ","2",".","4","4"," "," "," "," "," ","w","i","n","g","e","t","\n","G","i","t"," ","X"," "," ","g","i","t","x"," "," "," "," "," ","1",".","0"," "," "," "," "," "," ","w","i","n","g","e","t","\n","G","i","t"," ","Y"," "," ","g","i","t","y"," "," "," "," "," ","1",".","0"," "," "," "," "," "," ","w","i","n","g","e","t","\n">>
T_choco ==
    <<"g","i","t","x","|","1",".","0","\n","g","i","t","y","|","1",".","1","\n","G","I","T","X","|","2",".","0","\n","g","i","t","|","3",".","0","\n","|","1",".","0","\n">>
T_scoop ==
    <<"N","a","m","e"," "," ","V","e","r","s","i","o","n"," "," ","S","o","u","r","c","e","\n","-","-","-","-"," "," ","-","-","-","-","-","-","-"," "," ","-","-","-","-","-","-","\n","G","I","T"," "," "," ","2",".","4","4"," "," "," "," "," ","m","a","i","n","\n">>

S_ok == <<"o","k">>
S_skipped == <<"s","k","i","p","p","e","d">>
S_Git_X == <<"G","i","t"," ","X">>

\* Records as load_results yields them: a winget entry that was not found,
\* an entry whose record has no manager identifier and whose name is a
\* query of its own, a record with only a status (every other key at its
\* default), a record with only a status and the manager choco, an entry
\* whose package id, manager identifier and name are three queries, an
\* entry that passed and an entry the checker skipped.
RecordPool == {
    ResultRecord(PackageEntry(S_git, S_winget, C_winget_id, S_Git_X, 5),
                 S_not_found, <<>>, None),
    ResultRecord(PackageEntry(S_git, S_winget, C_winget_git, S_Git, 1),
                 S_not_found, <<>>, S_Git_Git),
    ResultRecord(PackageEntry(S_git, S_Scoop, C_scoop, S_Git_X, 2),
                 S_error, <<>>, None),
    ResultRecord(PackageEntry(<<>>, <<>>, <<>>, <<>>, 0),
                 S_not_found, <<>>, None),
    ResultRecord(PackageEntry(<<>>, S_choco, <<>>, <<>>, 0),
                 S_not_found, <<>>, None),
    ResultRecord(PackageEntry(S_Git_Git, S_choco, C_choco, S_Git, 3),
                 S_ok, <<>>, S_git),
    ResultRecord(PackageEntry(S_git, S_pip, C_pip, S_Git, 4),
                 S_skipped, <<>>, None)}

\* The records of the longer inputs: two failures with one query each (a
\* scoop entry that was not found, a choco entry that gave an error), an
\* entry that passed and an entry the checker skipped.
MixPool == {
    ResultRecord(PackageEntry(S_git, S_scoop, C_scoop, <<>>, 1),
                 S_not_found, <<>>, None),
    ResultRecord(PackageEntry(S_GIT, S_choco, C_choco, <<>>, 2),
                 S_error, <<>>, S_git),
    ResultRecord(PackageEntry(S_Git_Git, S_choco, C_choco, S_Git, 3),
                 S_ok, <<>>, S_git),
    ResultRecord(PackageEntry(S_git, S_pip, C_pip, S_Git, 4),
                 S_skipped, <<>>, None)}

\* What load_results reads: nothing, one record of RecordPool, or two to
\* MaxRecords records of MixPool
SuggestCatalogs ==
    SeqsUpTo(RecordPool, 1)
    \cup {records \in SeqsUpTo(MixPool, MaxRecords) : Len(records) >= 2}

\* parse_args, and whether the input JSON exists
SuggestArgs(input, managers, package_ids, search_managers, max_suggestions) ==
    [input |-> input, managers |-> managers, package_ids |-> package_ids,
     search_managers |-> search_managers, max_suggestions |-> max_suggestions]

SuggestArgsPool == {
    SuggestArgs(FALSE, <<>>, <<>>, <<>>, 3),
    SuggestArgs(TRUE, <<S_scoop>>, <<>>, <<>>, 3),
    SuggestArgs(TRUE, <<>>, <<>>, <<S_Chocolatey, S_CHOCO>>, 1),
    SuggestArgs(TRUE, <<>>, <<S_GIT>>, <<S_pip>>, 3),
    SuggestArgs(TRUE, <<>>, <<>>, <<S_scoop, S_winget>>, -1),
    SuggestArgs(TRUE, <<S_scoop>>, <<>>, <<S_scoop>>, 3),
    SuggestArgs(TRUE, <<>>, <<>>, <<S_scoop>>, 3)}

\* The arguments of the runs over more than one record: a package-id filter
\* with a manager that has no search function, a manager filter with one
\* search manager, and one search manager without a filter
LongRunArgs == {
    SuggestArgs(TRUE, <<>>, <<S_GIT>>, <<S_pip>>, 3),
    SuggestArgs(TRUE, <<S_scoop>>, <<>>, <<S_scoop>>, 3),
    SuggestArgs(TRUE, <<>>, <<>>, <<S_scoop>>, 3)}

\* How the process of a search call ends: the three tables, no output with
\* and without an exit code, no executable, an executable that cannot be
\* run, a timeout
SearchRuns == {
    LaunchFailure, PermissionDenied, Timeout, Completed(1, <<>>),
    Completed(0, <<>>),
    Completed(0, T_winget), Completed(0, T_choco), Completed(0, T_scoop)}

\* The table the CLI of a manager prints
SearchTable(manager) ==
    IF manager = S_winget THEN T_winget
    ELSE IF manager = S_choco THEN T_choco
    ELSE T_scoop

InitSuggest ==
    /\ prog = "suggest"
    /\ pc = "start"
    /\ args \in SuggestArgsPool
    /\ catalog \in SuggestCatalogs
    /\ Len(catalog) > 1 => args \in LongRunArgs
    /\ ~args.input => catalog = <<>>
    /\ entries = <<>>
    /\ results = <<>>
    /\ proc = NoProc
    /\ spawned = <<>>
    /\ exitCode = <<>>
    /\ search = NoSearch

\* main, lines 577-579: the input JSON does not exist
SuggestNoInput ==
    /\ prog = "suggest" /\ pc = "start"
    /\ ~args.input
    /\ pc' = "done"
    /\ exitCode' = <<1>>
    /\ UNCHANGED <<prog, args, catalog, entries, results, proc, spawned, search>>

\* main, lines 587-591: the filters leave no failing record
SuggestNoRecords ==
    /\ prog = "suggest" /\ pc = "start"
    /\ args.input
    /\ filter_records(catalog, args.managers, args.package_ids) = <<>>
    /\ pc' = "done"
    /\ exitCode' = <<0>>
    /\ UNCHANGED <<prog, args, catalog, entries, results, proc, spawned, search>>

\* main, lines 587-596: the loop begins
SuggestBegin ==
    /\ prog = "suggest" /\ pc = "start"
    /\ args.input
    /\ filter_records(catalog, args.managers, args.package_ids) # <<>>
    /\ entries' = filter_records(catalog, args.managers, args.package_ids)
    /\ search' = SearchState(1, resolve_search_managers(args.search_managers))
    /\ pc' = "record"
    /\ UNCHANGED <<prog, args, catalog, results, proc, spawned, exitCode>>

\* search_for_record, lines 451-454: gather_queries on the next record
SuggestGather ==
    /\ prog = "suggest" /\ pc = "record"
    /\ \E gathered \in {gather_queries(entries[search.idx])} :
        /\ entries' = [entries EXCEPT ![search.idx] = gathered.record]
        /\ search' = [search EXCEPT !.queries = gathered.queries,
                                    !.mi = 1, !.qi = 1, !.last_error = "",
                                    !.scored = <<>>, !.notes = <<>>,
                                    !.found = <<>>]
    /\ pc' = "manager"
    /\ UNCHANGED <<prog, args, catalog, results, proc, spawned, exitCode>>

\* The head of the loop over the managers, lines 455-461: the next manager
\* is searched, or has no search function; after the last manager
\* search_for_record sorts and returns (lines 482-483) and main builds the
\* record of the report (lines 599-603)
SuggestManager ==
    /\ prog = "suggest" /\ pc = "manager"
    /\ IF search.mi > Len(search.managers)
       THEN \E suggestions \in {sort_by_score(search.scored)} :
            /\ results' = Append(results,
                    build_output_record(entries[search.idx], suggestions,
                                        search.notes, args.max_suggestions))
            /\ search' = [search EXCEPT !.idx = search.idx + 1,
                                        !.calls = <<>>,
                                        !.suggestions = suggestions,
                                        !.returned_notes = search.notes]
            /\ pc' = IF search.idx < Len(entries) THEN "record" ELSE "write"
       ELSE IF search.managers[search.mi] \notin SEARCH_FUNCTIONS
       THEN /\ search' = [search EXCEPT
                    !.mi = search.mi + 1,
                    !.calls = <<>>,
                    !.notes = Append(search.notes,
                        Note(search.managers[search.mi],
                             "no search implementation available.", <<>>))]
            /\ UNCHANGED <<results, pc>>
       ELSE /\ search' = [search EXCEPT !.qi = 1, !.last_error = "",
                                        !.calls = <<>>]
            /\ pc' = "query"
            /\ UNCHANGED results
    /\ UNCHANGED <<prog, args, catalog, entries, proc, spawned, exitCode>>

\* A turn of the loop over the queries: the query, the exception that left
\* search_fn ("" for none) with its text, and the length of manager_candidates
SearchCall(query, outcome) ==
    [query |-> query, raised |-> outcome.raised, message |-> outcome.message,
     candidates |-> Len(outcome.candidates)]

\* One turn of the loop over the queries, lines 463-481: the call
\* search_fn(query, timeout), whose process ends as run; a process that
\* prints a table is the manager's CLI printing its own; an exception that
\* search_for_record does not catch leaves it and main, and no report is
\* written
SuggestSearch(run) ==
    /\ prog = "suggest" /\ pc = "query"
    /\ (run.kind = "completed" /\ run.output # <<>>)
            => run.output = SearchTable(search.managers[search.mi])
    /\ \E outcome \in {search_fn(search.managers[search.mi],
                                 search.queries[search.qi], run)} :
        /\ IF outcome.raised \in CaughtBySearch \cup {""}
           THEN \E s \in {after_search(entries[search.idx], search, outcome)} :
                /\ search' = [s EXCEPT !.calls = Append(search.calls,
                                  SearchCall(search.queries[search.qi], outcome))]
                /\ pc' = IF s.mi = search.mi THEN "query" ELSE "manager"
           ELSE /\ pc' = "crashed"
                /\ UNCHANGED search
        /\ spawned' = Append(spawned, <<search.managers[search.mi],
                                        search.queries[search.qi]>>)
    /\ proc' = run
    /\ UNCHANGED <<prog, args, catalog, entries, results, exitCode>>

\* main, lines 605-623: the payload is written, or OSError
SuggestWrite(written) ==
    /\ prog = "suggest" /\ pc = "write"
    /\ pc' = "done"
    /\ exitCode' = IF written THEN <<0>> ELSE <<1>>
    /\ UNCHANGED <<prog, args, catalog, entries, results, proc, spawned, search>>

NextSuggest ==
    \/ SuggestNoInput
    \/ SuggestNoRecords
    \/ SuggestBegin
    \/ SuggestGather
    \/ SuggestManager
    \/ \E run \in SearchRuns : SuggestSearch(run)
    \/ \E written \in BOOLEAN : SuggestWrite(written)

SpecSuggest == InitSuggest /\ [][NextSuggest]_vars

-----------------------------------------------------------------------------
(* Both programs *)

Init == InitCheck \/ InitSuggest

Next == NextCheck \/ NextSuggest

Spec == Init /\ [][Next]_vars


-----------------------------------------------------------------------------
(* score_candidates applied to one record and a list of candidates *)

MaxCandidates == 2

\* The candidates the three search functions parse from the tables
CandidatePool ==
    Range(search_fn(S_winget, S_git, Completed(0, T_winget)).candidates)
    \cup Range(search_fn(S_choco, S_git, Completed(0, T_choco)).candidates)
    \cup Range(search_fn(S_scoop, S_git, Completed(0, T_scoop)).candidates)

\* The records as search_for_record hands them to score_candidates
ScoreRecords ==
    {gather_queries(record).record : record \in RecordPool}
    \cup {ResultRecord(PackageEntry(S_git, S_Chocolatey, C_choco, S_Git, 4),
                       S_not_found, <<>>,
                       extract_manager_identifier(
                           PackageEntry(S_git, S_Chocolatey, C_choco, S_Git, 4)))}

InitScore ==
    /\ prog = "score"
    /\ pc = "start"
    /\ args \in [record : ScoreRecords,
                 candidates : SeqsUpTo(CandidatePool, MaxCandidates)]
    /\ catalog = <<>>
    /\ entries = <<>>
    /\ results = <<>>
    /\ proc = NoProc
    /\ spawned = <<>>
    /\ exitCode = <<>>
    /\ search = NoSearch

\* score_candidates; steps keeps, per candidate, the values base took
Score ==
    /\ prog = "score" /\ pc = "start"
    /\ results' = score_candidates(args.record.entry,
                                   args.record.manager_identifier,
                                   args.candidates)
    /\ search' = [active |-> FALSE,
                  steps |-> [i \in 1..Len(args.candidates) |->
                      score_steps(args.record.entry,
                                  args.record.manager_identifier,
                                  args.candidates[i])]]
    /\ pc' = "done"
    /\ UNCHANGED <<prog, args, catalog, entries, proc, spawned, exitCode>>

NextScore == Score

SpecScore == InitScore /\ [][NextScore]_vars

-----------------------------------------------------------------------------
(* Claims about the exit code of a run that has nothing to process *)

\* The catalog files (check) or the input JSON (suggest) are missing
NothingToRead ==
    \/ prog = "check" /\ args.directory /\ ~args.files
    \/ prog = "suggest" /\ ~args.input

\* The files are there and the filters select nothing
NothingSelected ==
    \/ /\ prog = "check" /\ args.files
       /\ filter_entries(catalog, args.managers, args.package_ids) = <<>>
    \/ /\ prog = "suggest" /\ args.input
       /\ filter_records(catalog, args.managers, args.package_ids) = <<>>

\* C7 as stated: the run exits with code 1 when no catalog files are found
\* and also when the catalog files or the manager/package-id filters select
\* nothing to process.
C7_ExitOneWhenNothingSelected ==
    (pc = "done" /\ (NothingToRead \/ NothingSelected)) => exitCode = <<1>>

\* C7, amended: the run exits with code 1 when no catalog file is found
\* (check) or the input JSON does not exist (suggest); when the files are
\* there and the filters select nothing to process it exits with code 0.
C7_ExitOneOnlyWhenNothingToRead ==
    /\ (pc = "done" /\ NothingToRead) => exitCode = <<1>>
    /\ (pc = "done" /\ NothingSelected) => exitCode = <<0>>

\* A check run whose catalog has entries and whose filters drop them all
C7_Witness ==
    /\ prog = "check" /\ pc = "done"
    /\ catalog # <<>>
    /\ NothingSelected
    /\ exitCode = <<0>>

-----------------------------------------------------------------------------
(* Claims about the scores *)

InUnitInterval(x) == FloatLE(Zero, x) /\ FloatLE(x, One)

Scored == prog = "score" /\ pc = "done"

\* C8: for every failing entry, every known manager identifier (or none)
\* and every candidate, the score of score_candidates lies in [0, 1], before
\* and after each of the three bonus additions.
C8_ScoreInUnitInterval ==
    Scored =>
        /\ \A i \in 1..Len(search.steps) : \A k \in 1..4 :
               InUnitInterval(search.steps[i][k])
        /\ \A i \in 1..Len(results) : InUnitInterval(results[i].score)

\* A candidate of the entry's manager whose base is 1.0 before the manager
\* bonus, next to a candidate whose score a bonus raised to less than 1.0
C8_Witness ==
    /\ Scored
    /\ \E i \in 1..Len(search.steps) :
        /\ args.candidates[i].manager = args.record.entry.manager
        /\ search.steps[i][3] = One
    /\ \E j \in 1..Len(search.steps) :
        /\ search.steps[j][4] # search.steps[j][1]
        /\ FloatLT(search.steps[j][4], One)

\* search_for_record has returned for the record before search.idx
Returned ==
    /\ prog = "suggest" /\ pc \in {"record", "write", "done"}
    /\ search.active /\ search.idx > 1

ReturnedRecord == entries[search.idx - 1]

\* The place of a suggestion's manager in the search order
ManagerPos(s) ==
    MinOf({m \in 1..Len(search.managers) : search.managers[m] = s.manager})

\* The place of a suggestion among the candidates found, in the order the
\* search functions listed them
FoundPos(s) ==
    MinOf({k \in 1..Len(search.found) :
              /\ search.found[k].manager = s.manager
              /\ search.found[k].identifier = s.identifier
              /\ search.found[k].raw = s.raw})

DiscoveredBefore(s, t) ==
    \/ ManagerPos(s) < ManagerPos(t)
    \/ ManagerPos(s) = ManagerPos(t) /\ FoundPos(s) < FoundPos(t)

\* C9: the list search_for_record returns is ordered by score descending,
\* and two suggestions of equal score stand in discovery order (managers in
\* search order, then rows in the order the output listed them), also across
\* managers.
C9_DescendingAndStable ==
    Returned =>
        \A i, j \in 1..Len(search.suggestions) :
            i < j =>
                \/ FloatLT(search.suggestions[j].score, search.suggestions[i].score)
                \/ /\ search.suggestions[j].score = search.suggestions[i].score
                   /\ DiscoveredBefore(search.suggestions[i],
                                       search.suggestions[j])

\* Equal scores within one manager and across two managers, and a
\* suggestion that the sort moved in front of one found earlier
C9_Witness ==
    /\ Returned
    /\ \E i, j \in 1..Len(search.suggestions) :
        /\ i < j
        /\ search.suggestions[i].score = search.suggestions[j].score
        /\ search.suggestions[i].manager = search.suggestions[j].manager
    /\ \E i, j \in 1..Len(search.suggestions) :
        /\ i < j
        /\ search.suggestions[i].score = search.suggestions[j].score
        /\ search.suggestions[i].manager # search.suggestions[j].manager
    /\ \E i, j \in 1..Len(search.suggestions) :
        /\ i < j
        /\ DiscoveredBefore(search.suggestions[j], search.suggestions[i])

SameIdAsPackage(s) ==
    lower(s.identifier) = lower(ReturnedRecord.entry.package_id)

\* C10 as stated: whenever a candidate's identifier equals the entry's
\* package id case-insensitively, its final score is exactly 1.0, also when
\* the package id or the identifier is the empty string.
C10_SameIdScoresOne ==
    Returned =>
        \A i \in 1..Len(search.suggestions) :
            SameIdAsPackage(search.suggestions[i])
                => search.suggestions[i].score = One

\* The score of a suggestion with an empty identifier for an entry with an
\* empty package id: the two names are all that can be similar, 0.2 is
\* added for the equal identifiers and 0.05 when the managers are the same
EmptyIdScore(entry, s) ==
    LET named == IF entry.name # <<>> /\ s.name # <<>>
                 THEN ratio(lower(entry.name), lower(s.name)) ELSE Zero
        withId == FloatMin(FloatAdd(named, Float(2, 10)), One)
    IN IF s.manager = entry.manager
       THEN FloatMin(FloatAdd(withId, Float(5, 100)), One)
       ELSE withId

\* C10, amended: whenever a candidate's identifier equals the entry's
\* package id case-insensitively and is not the empty string, its final
\* score is exactly 1.0; when both are the empty string their similarity is
\* 0.0 and the final score is the similarity of the names plus 0.2, plus
\* 0.05 when the candidate's manager is the entry's manager: 0.2 and 0.25
\* for an entry without a name.
C10_SameNonEmptyIdScoresOne ==
    Returned =>
        \A i \in 1..Len(search.suggestions) :
            SameIdAsPackage(search.suggestions[i]) =>
                IF search.suggestions[i].identifier # <<>>
                THEN search.suggestions[i].score = One
                ELSE /\ search.suggestions[i].score
                        = EmptyIdScore(ReturnedRecord.entry, search.suggestions[i])
                     /\ ReturnedRecord.entry.name = <<>> =>
                            search.suggestions[i].score
                                = (IF search.suggestions[i].manager
                                          = ReturnedRecord.entry.manager
                                   THEN Float(1, 4) ELSE Float(1, 5))

\* A suggestion whose identifier is the package id in another letter case
C10_Witness ==
    /\ Returned
    /\ \E i \in 1..Len(search.suggestions) :
        /\ SameIdAsPackage(search.suggestions[i])
        /\ search.suggestions[i].identifier # ReturnedRecord.entry.package_id
        /\ search.suggestions[i].score = One


-----------------------------------------------------------------------------
(* dedupe_candidates applied to a list of candidates, and to its own result *)

MaxDupes == 3

InitDedupe ==
    /\ prog = "dedupe"
    /\ pc = "start"
    /\ args \in SeqsUpTo(CandidatePool, MaxDupes)
    /\ catalog = <<>>
    /\ entries = <<>>
    /\ results = <<>>
    /\ proc = NoProc
    /\ spawned = <<>>
    /\ exitCode = <<>>
    /\ search = NoSearch

\* dedupe_candidates on the list, then on the list it returned; entries
\* keeps the result of the first call
Dedupe ==
    /\ prog = "dedupe" /\ pc \in {"start", "once"}
    /\ results' = dedupe_candidates(IF pc = "start" THEN args ELSE results)
    /\ entries' = results
    /\ pc' = IF pc = "start" THEN "once" ELSE "twice"
    /\ UNCHANGED <<prog, args, catalog, proc, spawned, exitCode, search>>

NextDedupe == Dedupe

SpecDedupe == InitDedupe /\ [][NextDedupe]_vars

DedupeKey(c) == <<c.manager, lower(c.identifier)>>

WithKey(cs, key) == {i \in 1..Len(cs) : DedupeKey(cs[i]) = key}

\* What the first call of dedupe_candidates returned
Deduped == IF pc = "once" THEN results ELSE entries

\* C11: dedupe_candidates keeps, for every (manager, lower-cased identifier)
\* key of its input, exactly one candidate, the first one of the input with
\* that key, in first-seen order; and applying it to its own result returns
\* that result unchanged.
C11_FirstOfEachKeyAndIdempotent ==
    (prog = "dedupe" /\ pc \in {"once", "twice"}) =>
        /\ \A i \in 1..Len(args) :
               Cardinality(WithKey(Deduped, DedupeKey(args[i]))) = 1
        /\ \A k \in 1..Len(Deduped) :
               /\ WithKey(args, DedupeKey(Deduped[k])) # {}
               /\ Deduped[k] = args[MinOf(WithKey(args, DedupeKey(Deduped[k])))]
        /\ \A k, l \in 1..Len(Deduped) :
               k < l => MinOf(WithKey(args, DedupeKey(Deduped[k])))
                            < MinOf(WithKey(args, DedupeKey(Deduped[l])))
        /\ pc = "twice" => results = entries

\* Two candidates of one manager whose identifiers differ only by case were
\* collapsed to the first, next to a candidate of another manager with the
\* same identifier that was kept
C11_Witness ==
    /\ prog = "dedupe" /\ pc = "twice"
    /\ \E i, j \in 1..Len(args) :
        /\ i < j
        /\ args[i].manager = args[j].manager
        /\ args[i].identifier # args[j].identifier
        /\ lower(args[i].identifier) = lower(args[j].identifier)
        /\ args[i] \in Range(results)
        /\ args[j] \notin Range(results)
    /\ \E k, l \in 1..Len(results) :
        /\ results[k].manager # results[l].manager
        /\ results[k].identifier = results[l].identifier


-----------------------------------------------------------------------------
(* Claims about the loops of search_for_record *)

\* search_for_record is at work on entries[search.idx], between two turns of
\* its loops
Searching ==
    /\ prog = "suggest" /\ pc \in {"manager", "query"}
    /\ search.active

\* The loop over the queries has ended for the manager before search.mi
ManagerDone == Searching /\ pc = "manager" /\ search.calls # <<>>

\* The package id, the manager-native id and the display name of a record,
\* stripped, without the blank ones and without those that repeat an earlier
\* one in another letter case
NonBlankQueries(record) ==
    LET values == <<strip(record.entry.package_id),
                    strip(Or(record.manager_identifier, <<>>)),
                    strip(record.entry.name)>>
        Kept(i) == /\ values[i] # <<>>
                   /\ \A j \in 1..(i - 1) : lower(values[j]) # lower(values[i])
    IN (IF Kept(1) THEN <<values[1]>> ELSE <<>>)
       \o (IF Kept(2) THEN <<values[2]>> ELSE <<>>)
       \o (IF Kept(3) THEN <<values[3]>> ELSE <<>>)

\* The same list, or the package id as it stands when all three are blank
FallbackQueries(record) ==
    IF NonBlankQueries(record) # <<>> THEN NonBlankQueries(record)
    ELSE <<record.entry.package_id>>

\* The calls made for the manager at hand are the first queries of the
\* list, one call per query in order; only the last call may have yielded
\* candidates; the loop ends only on candidates or at the end of the list
IssuedInOrder(queries) ==
    /\ Len(search.calls) <= Len(queries)
    /\ \A k \in 1..Len(search.calls) :
        /\ search.calls[k].query = queries[k]
        /\ k < Len(search.calls) => search.calls[k].candidates = 0
    /\ ManagerDone =>
        \/ search.calls[Len(search.calls)].candidates > 0
        \/ Len(search.calls) = Len(queries)

\* C12 as stated: for each search manager the queries are issued in the
\* order package id, manager-native id, display name, blank values dropped
\* and duplicates removed, one search call per query, until a query yields a
\* candidate or the list is exhausted, and none after a query that yielded.
C12_QueriesInOrderBlanksDropped ==
    Searching => IssuedInOrder(NonBlankQueries(entries[search.idx]))

\* C12, amended: the same, except that when the package id, the
\* manager-native id and the display name are all blank, the one query
\* issued per manager is the package id as it stands.
C12_QueriesInOrderWithFallback ==
    Searching =>
        \A queries \in {FallbackQueries(entries[search.idx])} :
            IssuedInOrder(queries)

\* A manager whose first query, the package id, gave nothing and whose
\* second query, the manager-native id, yielded candidates
C12_Witness ==
    /\ ManagerDone
    /\ Len(search.calls) = 2
    /\ search.calls[1].query = entries[search.idx].entry.package_id
    /\ search.calls[1].candidates = 0
    /\ search.calls[2].query = entries[search.idx].manager_identifier
    /\ search.calls[2].candidates > 0


\* The manager whose loop over the queries has just ended
DoneManager == search.managers[search.mi - 1]

\* The turns of the loop that ended with SearchError or TimeoutExpired
FailedCalls == {k \in 1..Len(search.calls) : search.calls[k].raised # ""}

\* The notes written so far for a manager
NotesOf(notes, manager) ==
    {n \in 1..Len(notes) : notes[n].manager = manager}

\* A failure does not end the loop over the queries before the last query,
\* and search_for_record returns with every manager tried: each has a note
\* or a suggestion
FailuresDoNotStopTheSearch ==
    /\ (ManagerDone /\ Len(search.calls) \in FailedCalls)
            => Len(search.calls) = Len(search.queries)
    /\ Returned =>
        \A m \in 1..Len(search.managers) :
            \/ NotesOf(search.returned_notes, search.managers[m]) # {}
            \/ \E i \in 1..Len(search.suggestions) :
                   search.suggestions[i].manager = search.managers[m]

\* C13 as stated: every failure of a manager's search or of a single query
\* (search error, missing CLI, timeout) is recorded as a note in the entry's
\* notes, and the failure never prevents the remaining queries of that
\* manager or the remaining managers from being tried.
C13_EveryFailureNoted ==
    /\ ManagerDone =>
        \A k \in FailedCalls :
            \E n \in NotesOf(search.notes, DoneManager) :
                search.notes[n].message = search.calls[k].message
    /\ FailuresDoNotStopTheSearch

\* C13, amended: a manager that ends without candidates after at least one
\* failed query gets exactly one note, carrying the message of its last
\* failure; earlier failures of that manager, and failures followed by a
\* query that yields candidates, are not recorded; a failure never prevents
\* the remaining queries of that manager or the remaining managers from
\* being tried.
C13_LastFailureNoted ==
    /\ ManagerDone =>
        IF search.calls[Len(search.calls)].candidates > 0
        THEN NotesOf(search.notes, DoneManager) = {}
        ELSE /\ NotesOf(search.notes, DoneManager) = {Len(search.notes)}
             /\ FailedCalls # {} =>
                    search.notes[Len(search.notes)] =
                        Note(DoneManager,
                             search.calls[MaxOf(FailedCalls)].message, <<>>)
    /\ FailuresDoNotStopTheSearch

\* A manager whose two queries failed in two ways: the second query was
\* tried and the note carries its message
C13_Witness ==
    /\ ManagerDone
    /\ FailedCalls = {1, 2}
    /\ search.calls[1].message # search.calls[2].message
    /\ search.notes[Len(search.notes)].message = search.calls[2].message
    /\ search.mi <= Len(search.managers)


-----------------------------------------------------------------------------
(* One call of a search function: search_winget, search_choco or
   search_scoop on a query, with a process that ends in a given way *)

P_blank ==
    <<" ","\n">>
P_winget_none ==
    <<"N","o"," ","p","a","c","k","a","g","e"," ","f","o","u","n","d"," ","m","a","t","c","h","i","n","g"," ","i","n","p","u","t"," ","c","r","i","t","e","r","i","a",".","\n">>
P_winget_none_row ==
    <<"N","o"," ","p","a","c","k","a","g","e"," ","f","o","u","n","d"," ","m","a","t","c","h","i","n","g"," ","i","n","p","u","t"," ","c","r","i","t","e","r","i","a",".","\n","G","i","t"," "," ","G","i","t",".","G","i","t"," "," ","2",".","4","4","\n">>
P_choco_none ==
    <<"N","o"," ","p","a","c","k","a","g","e","s"," ","f","o","u","n","d",".","\n">>
P_choco_none_row ==
    <<"g","i","t","|","1",".","0","\n","N","o"," ","p","a","c","k","a","g","e","s"," ","f","o","u","n","d",".","\n">>
P_scoop_none ==
    <<"N","o"," ","m","a","t","c","h","e","s"," ","f","o","u","n","d",".","\n">>
P_scoop_none_row ==
    <<"g","i","t"," "," ","m","a","i","n","\n","W","A","R","N"," "," ","N","o"," ","m","a","t","c","h","e","s"," ","f","o","u","n","d",".","\n">>
P_diag ==
    <<"E","r","r","o","r",":"," ","n","e","t","w","o","r","k"," ","u","n","r","e","a","c","h","a","b","l","e","\n">>

\* What the CLI may print: nothing, a blank line, the three tables, the
\* message of each manager for no results, alone and next to a row, and a
\* diagnostic
SearchOutputs == {
    <<>>, P_blank, T_winget, T_choco, T_scoop,
    P_winget_none, P_winget_none_row, P_choco_none, P_choco_none_row,
    P_scoop_none, P_scoop_none_row, P_diag}

SearchCallRuns ==
    {LaunchFailure, PermissionDenied, Timeout}
    \cup {Completed(code, output) : code \in {0, 1}, output \in SearchOutputs}

InitSearch ==
    /\ prog = "search"
    /\ pc = "start"
    /\ args \in [manager : SEARCH_FUNCTIONS, query : {S_git, S_Git_Git},
                 run : SearchCallRuns]
    /\ catalog = <<>>
    /\ entries = <<>>
    /\ results = <<>>
    /\ proc = NoProc
    /\ spawned = <<>>
    /\ exitCode = <<>>
    /\ search = NoSearch

\* SEARCH_FUNCTIONS[manager](query, timeout): results is what it returned,
\* or the exception that left it
Search ==
    /\ prog = "search" /\ pc = "start"
    /\ results' = search_fn(args.manager, args.query, args.run)
    /\ proc' = args.run
    /\ pc' = "done"
    /\ UNCHANGED <<prog, args, catalog, entries, spawned, exitCode, search>>

NextSearch == Search

SpecSearch == InitSearch /\ [][NextSearch]_vars

\* The process of the search call ran to its end
Searched == prog = "search" /\ pc = "done" /\ proc.kind = "completed"

\* The "no results" markers of a manager: the one search_choco and the one
\* search_scoop test for, and for winget, which search_winget does not test
\* for, the ones the checker knows
NoResultMarkers(manager) ==
    IF manager = S_winget THEN WINGET_NOT_FOUND_MARKERS
    ELSE IF manager = S_choco THEN {S_no_packages_found}
    ELSE {S_no_matches_found}

HasNoResultMarker ==
    ContainsAny(lower(proc.output), NoResultMarkers(args.manager))

\* C14: for each of winget, choco and scoop, whenever the output of the
\* search CLI contains the manager's "no results" marker, the search
\* function returns an empty candidate list, whatever other lines the
\* output contains.
C14_MarkerGivesNoCandidates ==
    (Searched /\ HasNoResultMarker) => results = Found(<<>>)


\* The candidates the loop of the search function makes of the output
RowsOf(manager, output, query) ==
    IF manager = S_winget THEN parse_winget_output(output, query)
    ELSE IF manager = S_choco THEN parse_choco_lines(splitlines(output), query)
    ELSE parse_scoop_lines(splitlines(output), query)

\* C15 as stated: a search call whose process exits with a non-zero code
\* and whose output yields neither a data row nor a recognized empty-result
\* marker raises SearchError instead of returning an empty list, for each
\* of winget, choco and scoop and for every such output, blank or not.
C15_NonZeroWithoutRowsRaises ==
    (/\ Searched /\ proc.code # 0
     /\ ~HasNoResultMarker
     /\ RowsOf(args.manager, proc.output, args.query) = <<>>)
        => results.raised = "SearchError"

\* C15, amended: a search call whose process exits with a non-zero code
\* raises SearchError exactly when the output is blank (empty or only
\* whitespace); with any other output it returns the rows it parses, also
\* when there are none.
C15_NonZeroWithBlankOutputRaises ==
    (Searched /\ proc.code # 0) =>
        IF IsBlank(proc.output)
        THEN results.raised = "SearchError" /\ results.candidates = <<>>
        ELSE results = Found(IF /\ args.manager # S_winget
                                /\ HasNoResultMarker
                             THEN <<>>
                             ELSE RowsOf(args.manager, proc.output, args.query))

\* An exit code with an output of whitespace only raised SearchError
C15_Witness ==
    /\ Searched /\ proc.code # 0
    /\ proc.output # <<>> /\ IsBlank(proc.output)
    /\ results.raised = "SearchError"


-----------------------------------------------------------------------------
(* extract_manager_identifier applied to a command made of tokens *)

MaxTokens == 4

S_ID_eq_Git_Git ==
    <<"-","-","I","D","=","G","i","t",".","G","i","t">>
S_dash_yes ==
    <<"-","-","y","e","s">>
S_quoted_git ==
    <<"'","g","i","t","'">>

\* The tokens the commands are made of: the invocation token of the
\* manager, a verb of every manager, a verb of winget only, the identifier
\* flag alone and with its value, an identifier, another flag and a quoted
\* identifier
CommandTokens(manager) ==
    {CLI_NAME_BY_MANAGER(lower(manager)), S_install, S_list, S_dashdash_id,
     S_ID_eq_Git_Git, S_Git_Git, S_dash_yes, S_quoted_git}

\* " ".join(tokens)
RECURSIVE join(_)
join(tokens) ==
    IF tokens = <<>> THEN <<>>
    ELSE IF Len(tokens) = 1 THEN tokens[1]
    ELSE tokens[1] \o <<" ">> \o join(Tail(tokens))

ExtractManagers == {S_winget, S_Chocolatey, S_scoop}

InitExtract ==
    /\ prog = "extract"
    /\ pc = "start"
    /\ \E manager \in ExtractManagers :
       \E tokens \in SeqsUpTo(CommandTokens(manager), MaxTokens) :
           args = [manager |-> manager, tokens |-> tokens,
                   command |-> join(tokens)]
    /\ catalog = <<>>
    /\ entries = <<>>
    /\ results = <<>>
    /\ proc = NoProc
    /\ spawned = <<>>
    /\ exitCode = <<>>
    /\ search = NoSearch

\* extract_manager_identifier on an entry of the manager with the command
Extract ==
    /\ prog = "extract" /\ pc = "start"
    /\ results' = extract_manager_identifier(
                      PackageEntry(S_git, args.manager, args.command, <<>>, 0))
    /\ pc' = "done"
    /\ UNCHANGED <<prog, args, catalog, entries, proc, spawned, exitCode, search>>

NextExtract == Extract

SpecExtract == InitExtract /\ [][NextExtract]_vars

Extracted(managers) ==
    prog = "extract" /\ pc = "done" /\ lower(args.manager) \in managers

\* The longest run of word characters, dots and hyphens a text begins with
IdRun(text) == SubSeq(text, 1, IdRunEnd(text, 1) - 1)

\* The value of the identifier flag that token i of the command is: --id in
\* any letter case, then "=" and the value in the same token, or the value
\* in the next token; None when token i is no such flag
FlagValueAt(tokens, i) ==
    IF /\ lower(tokens[i]) = S_dashdash_id
       /\ i < Len(tokens)
       /\ IdRun(tokens[i + 1]) # <<>>
    THEN IdRun(tokens[i + 1])
    ELSE IF /\ Len(tokens[i]) > 5
            /\ lower(SubSeq(tokens[i], 1, 5)) = S_dashdash_id \o <<"=">>
            /\ IdRun(SubSeq(tokens[i], 6, Len(tokens[i]))) # <<>>
    THEN IdRun(SubSeq(tokens[i], 6, Len(tokens[i])))
    ELSE None

IdFlags(tokens) == {i \in 1..Len(tokens) : FlagValueAt(tokens, i) # None}

NonFlag(token) == token # <<>> /\ token[1] # "-"

\* The places where the invocation token stands right before a verb of the
\* set and a token that is no flag comes after the verb
Invocations(tokens, cli, verbs) ==
    {i \in 1..(Len(tokens) - 2) :
        /\ lower(tokens[i]) = cli
        /\ lower(tokens[i + 1]) \in verbs
        /\ \E j \in (i + 2)..Len(tokens) : NonFlag(tokens[j])}

\* The first token that is no flag after the verb of the first such place,
\* 0 when there is no such place
PositionalToken(tokens, cli, verbs) ==
    IF Invocations(tokens, cli, verbs) = {} THEN 0
    ELSE MinOf({j \in (MinOf(Invocations(tokens, cli, verbs)) + 2)..Len(tokens) :
                   NonFlag(tokens[j])})

Unquoted(token) == strip_chars(token, {"\"", "'"})

\* C16: for winget, whenever the command contains an identifier flag (--id
\* in any letter case, then "=" or whitespace, then a value of word
\* characters, dots and hyphens), extraction returns the value of the first
\* such flag, wherever the flag stands and whether or not an invocation
\* token or a verb is there; only when there is no such flag it returns
\* the first non-flag token after "winget" and a verb of {install, upgrade,
\* show, display, list}, quotes stripped, or none.
C16_IdFlagBeforePositional ==
    Extracted({S_winget}) =>
        IF IdFlags(args.tokens) # {}
        THEN results = FlagValueAt(args.tokens, MinOf(IdFlags(args.tokens)))
        ELSE IF PositionalToken(args.tokens, S_winget, WingetVerbs) # 0
        THEN results = Unquoted(args.tokens[
                 PositionalToken(args.tokens, S_winget, WingetVerbs)])
        ELSE results = None

\* The flag stands last, after "winget install" and a token the positional
\* rule would return, and is written in upper case
C16_Witness ==
    /\ Extracted({S_winget})
    /\ PositionalToken(args.tokens, S_winget, WingetVerbs) = 3
    /\ IdFlags(args.tokens) = {4}
    /\ args.tokens[4] # lower(args.tokens[4])
    /\ results = S_Git_Git


PositionalManagers == {S_chocolatey, S_scoop}

PositionalVerbs(manager) ==
    IF lower(manager) = S_scoop THEN ScoopVerbs ELSE ChocoVerbs

\* The first non-flag token after the invocation token of the manager and
\* a verb of the manager's set, 0 when there is none
PositionalHit ==
    PositionalToken(args.tokens, CLI_NAME_BY_MANAGER(lower(args.manager)),
                    PositionalVerbs(args.manager))

\* C17 as stated: for choco/chocolatey and scoop, extraction returns the
\* first token that does not start with "-" after a verb of the manager's
\* verb set that directly follows the manager's invocation token, and none
\* when the command has no invocation token followed by such a verb or no
\* non-flag token after it.
C17_FirstNonFlagToken ==
    Extracted(PositionalManagers) =>
        results = IF PositionalHit # 0 THEN args.tokens[PositionalHit]
                  ELSE None

\* C17, amended: the same, the token being returned with the quote
\* characters at its ends stripped.
C17_FirstNonFlagTokenUnquoted ==
    Extracted(PositionalManagers) =>
        results = IF PositionalHit # 0
                  THEN Unquoted(args.tokens[PositionalHit])
                  ELSE None

\* A choco command whose identifier comes after a flag
C17_Witness ==
    /\ Extracted({S_chocolatey})
    /\ PositionalHit = 4
    /\ args.tokens[3] = S_dash_yes
    /\ results = S_Git_Git


-----------------------------------------------------------------------------
(* Claims about the report of the suggestion run *)

\* A check result that failed
IsFailure(record) == lower(record.status) \in {S_not_found, S_error}

\* A value passes a filter list that is empty or names it in some letter case
PassesFilter(value, filter) ==
    \/ \A i \in 1..Len(filter) : filter[i] = <<>>
    \/ \E i \in 1..Len(filter) :
           filter[i] # <<>> /\ lower(filter[i]) = lower(value)

\* The check results the suggestion pass has to process, in input order
SelectedFailures ==
    SelectSeq(catalog,
              LAMBDA record :
                  /\ IsFailure(record)
                  /\ PassesFilter(record.entry.manager, args.managers)
                  /\ PassesFilter(record.entry.package_id, args.package_ids))

\* A record of the report is the record of a check result
ReportsOn(output, record) ==
    /\ output.package_id = record.entry.package_id
    /\ output.manager = record.entry.manager
    /\ output.index = record.entry.index
    /\ output.status = record.status
    /\ output.message = record.message

\* C18: the report holds exactly one record for each input check result
\* whose status is "not-found" or "error" and that passes the manager and
\* package-id filters, in input order, and a search is only ever made for
\* such a result, never for one with status "ok" or "skipped".
C18_FailuresOnly ==
    prog = "suggest" =>
        \A selected \in {SelectedFailures} :
            /\ Len(results) <= Len(selected)
            /\ \A k \in 1..Len(results) : ReportsOn(results[k], selected[k])
            /\ pc \in {"write", "done"} => Len(results) = Len(selected)
            /\ Searching =>
                /\ search.idx = Len(results) + 1
                /\ search.idx <= Len(selected)
                /\ entries[search.idx].entry = selected[search.idx].entry
                /\ IsFailure(entries[search.idx])

\* A run over a failure, an entry that passed, and another failure: the
\* report holds the two failures in input order, after one search for each
C18_Witness ==
    /\ prog = "suggest" /\ pc = "done"
    /\ Len(catalog) = 3
    /\ IsFailure(catalog[1]) /\ catalog[2].status = S_ok /\ IsFailure(catalog[3])
    /\ catalog[1].entry # catalog[3].entry
    /\ Len(results) = 2
    /\ ReportsOn(results[1], catalog[1]) /\ ReportsOn(results[2], catalog[3])
    /\ ~ReportsOn(results[1], catalog[3])
    /\ Len(spawned) = 2


\* The suggestion objects of the record main built from what
\* search_for_record returned last
ReportedSuggestions == results[search.idx - 1].suggestions

\* C19: for every maximum N the --max-suggestions option accepts and every
\* ranked list, the record built by build_output_record holds at most N
\* suggestion objects (none when N is below one), and they are the
\* highest-ranked suggestions in rank order.
C19_AtMostNHighestRanked ==
    Returned =>
        /\ \/ Len(ReportedSuggestions) <= args.max_suggestions
           \/ ReportedSuggestions = <<>>
        /\ \/ Len(ReportedSuggestions) = Len(search.suggestions)
           \/ Len(ReportedSuggestions) >= args.max_suggestions
        /\ \A k \in 1..Len(ReportedSuggestions) :
            /\ ReportedSuggestions[k].manager = search.suggestions[k].manager
            /\ ReportedSuggestions[k].identifier
                   = search.suggestions[k].identifier
            /\ ReportedSuggestions[k].raw = search.suggestions[k].raw
            /\ ReportedSuggestions[k].score = round4(search.suggestions[k].score)


\* The search manager the checker accepts an entry under: its manager in
\* lower case, chocolatey being choco; None for a manager it skips
AcceptedUnder(entry) == CLI_NAME_BY_MANAGER(lower(entry.manager))

SameText(a, b) == lower(a) = lower(b)

\* C20: score_candidates applies the three bonuses in order, each result
\* clamped to at most 1.0: +0.20 when the candidate identifier equals the
\* entry package id, +0.10 when it equals the known manager-native id, and
\* +0.05 whenever the candidate comes from searching the manager the checker
\* accepts the entry under.
C20_ThreeBonusesInOrder ==
    (Scored /\ AcceptedUnder(args.record.entry) # None) =>
        \A i \in 1..Len(args.candidates) :
            LET entry == args.record.entry
                native == args.record.manager_identifier
                candidate == args.candidates[i]
                base == search.steps[i]
            IN /\ base[2] = IF SameText(candidate.identifier, entry.package_id)
                            THEN FloatMin(FloatAdd(base[1], Float(20, 100)), One)
                            ELSE base[1]
               /\ base[3] = IF /\ IsTruthy(native)
                               /\ SameText(candidate.identifier, native)
                            THEN FloatMin(FloatAdd(base[2], Float(10, 100)), One)
                            ELSE base[2]
               /\ base[4] = IF candidate.manager = AcceptedUnder(entry)
                            THEN FloatMin(FloatAdd(base[3], Float(5, 100)), One)
                            ELSE base[3]
               /\ \E k \in 1..Len(results) :
                      /\ results[k].raw = candidate.raw
                      /\ results[k].manager = candidate.manager
                      /\ results[k].score = base[4]


-----------------------------------------------------------------------------
(* Claims about what the suggestion pass leaves of a check outcome *)

\* The failing records as load_results and filter_records hand them to the
\* loop of main
LoadedRecords == filter_records(catalog, args.managers, args.package_ids)

\* A record with the identifier of its command attached where it had none
WithNativeId(record) ==
    IF IsTruthy(record.manager_identifier) THEN record
    ELSE CHOOSE amended \in
             {IF IsTruthy(id) THEN [record EXCEPT !.manager_identifier = id]
              ELSE record : id \in {extract_manager_identifier(record.entry)}} :
             TRUE

\* gather_queries has just returned for record i, or search_for_record has
AfterGatherOrSearch(i) ==
    \/ i = search.idx /\ pc = "manager" /\ search.mi = 1
    \/ i = search.idx - 1 /\ pc \in {"record", "write", "done"}

\* C21: the only amendment the suggestion pass makes to a check outcome is
\* attaching the manager identifier extracted from the entry's command when
\* the outcome has none: an identifier already present is never overwritten
\* and the entry, status and message are as they were loaded, both after
\* gather_queries and after search_for_record.
C21_OnlyNativeIdAttached ==
    (prog = "suggest" /\ search.active) =>
        \A loaded \in {LoadedRecords} :
            /\ Len(entries) = Len(loaded)
            /\ \A i \in 1..Len(entries) :
                /\ entries[i].entry = loaded[i].entry
                /\ entries[i].status = loaded[i].status
                /\ entries[i].message = loaded[i].message
                /\ IsTruthy(loaded[i].manager_identifier) =>
                       entries[i] = loaded[i]
                /\ (i > search.idx \/ (i = search.idx /\ pc = "record")) =>
                       entries[i] = loaded[i]
                /\ AfterGatherOrSearch(i) =>
                       entries[i] = WithNativeId(loaded[i])

\* search_for_record returned suggestions for a record that was loaded
\* without a manager identifier and now carries the one of its command
C21_Witness ==
    /\ Returned
    /\ search.suggestions # <<>>
    /\ ~IsTruthy(LoadedRecords[search.idx - 1].manager_identifier)
    /\ ReturnedRecord.manager_identifier = S_git
    /\ ReturnedRecord.entry = LoadedRecords[search.idx - 1].entry


\* The searched managers that have a suggestion in the returned list
ManagersWithSuggestions ==
    {m \in 1..Len(search.managers) :
        \E i \in 1..Len(search.suggestions) :
            search.suggestions[i].manager = search.managers[m]}

\* C22: after search_for_record returns, every searched manager is
\* accounted for exactly once: a manager that contributed no candidates has
\* exactly one note (its last error if any of its queries failed, otherwise
\* the no-matches note) and a manager that contributed a candidate has no
\* note; the number of notes plus the number of managers with suggestions is
\* the number of managers searched.
C22_EachManagerAccountedOnce ==
    /\ ManagerDone =>
        IF search.calls[Len(search.calls)].candidates > 0
        THEN /\ NotesOf(search.notes, DoneManager) = {}
             /\ \E i \in 1..Len(search.scored) :
                    search.scored[i].manager = DoneManager
        ELSE /\ Cardinality(NotesOf(search.notes, DoneManager)) = 1
             /\ \A i \in 1..Len(search.scored) :
                    search.scored[i].manager # DoneManager
             /\ search.notes[Len(search.notes)] =
                    IF FailedCalls # {}
                    THEN Note(DoneManager,
                              search.calls[MaxOf(FailedCalls)].message, <<>>)
                    ELSE Note(DoneManager, "no matches for queries",
                              search.queries)
    /\ Returned =>
        /\ \A m \in 1..Len(search.managers) :
               Cardinality(NotesOf(search.returned_notes, search.managers[m]))
                   = IF m \in ManagersWithSuggestions THEN 0 ELSE 1
        /\ Len(search.returned_notes) + Cardinality(ManagersWithSuggestions)
               = Len(search.managers)

\* Three managers were searched with more calls than managers: one gave
\* suggestions, one ended on a failure and one found nothing
C22_Witness ==
    /\ Returned
    /\ Len(search.managers) = 3
    /\ Cardinality(ManagersWithSuggestions) = 1
    /\ Len(search.returned_notes) = 2
    /\ \E n \in 1..2 :
           search.returned_notes[n].message = "no matches for queries"
    /\ \E n \in 1..2 :
           search.returned_notes[n].message \notin
               {"no matches for queries", "no search implementation available."}
    /\ Len(spawned) > 3


\* C23: for any list of requested search managers (repeats, mixed case, the
\* alias chocolatey, unknown names) the suggestion list returned for a
\* record never holds two suggestions with the same manager and lower-cased
\* identifier, every suggestion's manager is one of winget, choco and scoop,
\* and all suggestions of one manager carry the same originating query.
C23_SuggestionsDistinctKnownOneQuery ==
    Returned =>
        /\ \A m \in 1..Len(search.managers) :
               search.managers[m] \in {S_winget, S_choco, S_scoop}
        /\ \A i \in 1..Len(search.suggestions) :
            /\ search.suggestions[i].manager \in {S_winget, S_choco, S_scoop}
            /\ \E m \in 1..Len(search.managers) :
                   search.managers[m] = search.suggestions[i].manager
            /\ \A j \in 1..Len(search.suggestions) :
                /\ (i # j) => DedupeKey(search.suggestions[i])
                                  # DedupeKey(search.suggestions[j])
                /\ search.suggestions[i].manager = search.suggestions[j].manager
                       => search.suggestions[i].query
                              = search.suggestions[j].query

\* Chocolatey and CHOCO were requested: choco was searched once, on the
\* second query, its rows gitx and GITX gave one suggestion, and the
\* suggestions carry that query
C23_Witness ==
    /\ Returned
    /\ args.search_managers = <<S_Chocolatey, S_CHOCO>>
    /\ search.managers = <<S_choco>>
    /\ Len(search.suggestions) > 1
    /\ Len(search.found) > Len(search.suggestions)
    /\ \A i \in 1..Len(search.suggestions) :
           search.suggestions[i].query = ReturnedRecord.manager_identifier
    /\ ReturnedRecord.manager_identifier # ReturnedRecord.entry.package_id

====
